---------------------------- MODULE Spec2Model ----------------------------
(***************************************************************************)
(* A model of the DPI engine: the rule set (RuleManager), the worker       *)
(* (FastPathProcessor with its ConnectionTracker) and the threaded         *)
(* pipeline reader -> load balancers -> fast paths -> output writer        *)
(* (DPIEngine, LoadBalancer, ThreadSafeQueue).                             *)
(*                                                                         *)
(* Strings are sequences of one-character strings, so that suffix tests,   *)
(* substring searches and lower-casing are computed and not assumed.       *)
(***************************************************************************)
EXTENDS Integers, Sequences, FiniteSets, TLC

VARIABLES
  rm,        \* RuleManager: blocked_ips_, blocked_ports_, blocked_apps_,
             \*   blocked_domains_, domain_patterns_
  rq,        \* the last evaluator call: its arguments and what it returned
  conns,     \* ConnectionTracker::connections_ of one worker: tuple -> Connection
  clock,     \* std::chrono::steady_clock, in model ticks
  fpFlow,    \* SpecFP: the five-tuple whose frames the worker is fed
  fpLast,    \* the last processPacket call: whether its flow was BLOCKED /
             \*   had been dropped before, the verdict, the tag and name after
  input,     \* the frames of the capture file
  hashOf,    \* FiveTupleHash of each tuple
  mainPc,    \* where the main thread is in processFile and stop
  running,   \* DPIEngine::running_
  reader,    \* readerThreadFunc: frames read, packet_id
  stats,     \* DPIStats: total_packets, forwarded_packets, dropped_packets
  lbs,       \* LoadBalancer by lb_id: running_, loop position, job held,
             \*   input_queue_, packets_dispatched_
  fps,       \* FastPathProcessor by fp_id: running_, loop position, job held
             \*   and its verdict, input_queue_, the flow table
  outq,      \* DPIEngine::output_queue_
  writerPc,  \* outputThreadFunc: loop position
  outFile,   \* the packet records written to the output file
  flowLog,   \* per tuple, the frames processPacket handled, in order, and by
             \*   which worker
  tsq,       \* a ThreadSafeQueue on its own: queue_ and shutdown_
  max_size,  \* its max_size_
  producers, \* the threads that call push on it: where each is in push,
             \*   the item it pushes, what its last call met and did
  pops,      \* how many items consumers have removed from it
  consumer,  \* the thread that pops: waiting or not, what its last call returned
  files,     \* the capture file given to processFile (whether it opens, its
             \*   global header bytes, its records) and whether the output opens
  pcap,      \* PcapReader: file_.is_open(), global_header_, needs_byte_swap_,
             \*   records consumed, and the last readNextPacket call
  pf,        \* processFile: where it is, whether start() has run, what it
             \*   returned, the header written to the output, the records
             \*   handed to a load balancer
  sx,        \* one call of SNIExtractor::extract: the buffer, the length
             \*   passed, and once it returned: the name, where the name
             \*   ended in the buffer, how many bytes of the buffer were read
  twin,      \* a second worker fed the same frames for comparison: its
             \*   connection table and its last verdict
  call       \* one call of a function checked on its own: the function,
             \*   its arguments and what it returned

coreVars == <<rm, rq, conns, clock, fpFlow, fpLast, twin, input, hashOf, mainPc,
              running, reader, stats, lbs, fps, outq, writerPc, outFile, flowLog>>
queueVars == <<tsq, max_size, producers, pops, consumer>>
pcapVars == <<files, pcap, pf>>
vars == <<coreVars, queueVars, pcapVars, sx, call>>

-----------------------------------------------------------------------------
(* Bounds of the model *)

\* longest name (in characters) the domain checks enumerate
MaxNameLen == 3
\* longest suffix of an enumerated wildcard rule "*.<suffix>"
MaxSuffixLen == 2
\* most entries of domain_patterns_ (a vector: duplicates are kept)
MaxPatterns == 2
\* ConnectionTracker::max_connections_ (100000 in the program)
MaxConnections == 2
\* last tick of the clock
MaxClock == 2
\* the idle threshold of cleanupStale in ticks (300 s in the program)
StaleTicks == 1

-----------------------------------------------------------------------------
(* Strings *)

\* the characters names and rules are made of in the enumerated checks
Alphabet == {"a", "A", "."}

UpperCase == {"A","B","C","D","E","F","G","H","I","J","K","L","M",
              "N","O","P","Q","R","S","T","U","V","W","X","Y","Z"}

LowerOf == [c \in UpperCase |->
  CASE c = "A" -> "a" [] c = "B" -> "b" [] c = "C" -> "c" [] c = "D" -> "d"
    [] c = "E" -> "e" [] c = "F" -> "f" [] c = "G" -> "g" [] c = "H" -> "h"
    [] c = "I" -> "i" [] c = "J" -> "j" [] c = "K" -> "k" [] c = "L" -> "l"
    [] c = "M" -> "m" [] c = "N" -> "n" [] c = "O" -> "o" [] c = "P" -> "p"
    [] c = "Q" -> "q" [] c = "R" -> "r" [] c = "S" -> "s" [] c = "T" -> "t"
    [] c = "U" -> "u" [] c = "V" -> "v" [] c = "W" -> "w" [] c = "X" -> "x"
    [] c = "Y" -> "y" [] c = "Z" -> "z"]

\* std::tolower on one character
ToLowerChar(c) == IF c \in UpperCase THEN LowerOf[c] ELSE c

\* std::transform(..., tolower) over a string
ToLower(s) == [i \in 1..Len(s) |-> ToLowerChar(s[i])]

\* s.find(c) != npos
HasChar(s, c) == \E i \in 1..Len(s) : s[i] = c

\* domain.size() >= suffix.size() && domain.compare(size-n, n, suffix) == 0
EndsWith(s, suffix) ==
  /\ Len(s) >= Len(suffix)
  /\ SubSeq(s, Len(s) - Len(suffix) + 1, Len(s)) = suffix

\* s.find(sub) != npos
Contains(s, sub) ==
  \E i \in 0..(Len(s) - Len(sub)) : SubSeq(s, i + 1, i + Len(sub)) = sub

\* every string over Alphabet of length exactly n / at most n
StringsOfLen(n) == [1..n -> Alphabet]
StringsUpTo(n) == UNION {StringsOfLen(k) : k \in 0..n}

-----------------------------------------------------------------------------
(* RuleManager *)

\* the source addresses, destination ports and application tags rules and
\* frames are drawn from
IPs == {1, 2}
Ports == {53, 80, 443}
RuleApps == {"HTTPS", "YOUTUBE"}

NoRules == [blocked_ips |-> {}, blocked_ports |-> {}, blocked_apps |-> {},
            blocked_domains |-> {}, domain_patterns |-> <<>>]

blockIP(r, ip) == [r EXCEPT !.blocked_ips = @ \cup {ip}]
unblockIP(r, ip) == [r EXCEPT !.blocked_ips = @ \ {ip}]
blockPort(r, port) == [r EXCEPT !.blocked_ports = @ \cup {port}]
unblockPort(r, port) == [r EXCEPT !.blocked_ports = @ \ {port}]
blockApp(r, app) == [r EXCEPT !.blocked_apps = @ \cup {app}]
unblockApp(r, app) == [r EXCEPT !.blocked_apps = @ \ {app}]

\* a rule holding '*' goes to the pattern vector, any other to the exact set
blockDomain(r, domain) ==
  IF HasChar(domain, "*")
    THEN [r EXCEPT !.domain_patterns = Append(@, domain)]
    ELSE [r EXCEPT !.blocked_domains = @ \cup {domain}]

\* std::find + erase: removes the first entry equal to the rule, if any
EraseFirst(v, x) ==
  IF \E i \in 1..Len(v) : v[i] = x
    THEN LET k == CHOOSE i \in 1..Len(v) :
                    v[i] = x /\ \A j \in 1..(i - 1) : v[j] # x
         IN SubSeq(v, 1, k - 1) \o SubSeq(v, k + 1, Len(v))
    ELSE v

unblockDomain(r, domain) ==
  IF HasChar(domain, "*")
    THEN [r EXCEPT !.domain_patterns = EraseFirst(@, domain)]
    ELSE [r EXCEPT !.blocked_domains = @ \ {domain}]

isIPBlocked(r, ip) == ip \in r.blocked_ips
isPortBlocked(r, port) == port \in r.blocked_ports
isAppBlocked(r, app) == app \in r.blocked_apps

\* mutant: the suffix compared without the dot before it (substr(2))
domainMatchesPattern_NoDot(domain, pattern) ==
  /\ Len(pattern) >= 2
  /\ pattern[1] = "*"
  /\ pattern[2] = "."
  /\ \/ EndsWith(domain, SubSeq(pattern, 3, Len(pattern)))
     \/ domain = SubSeq(pattern, 3, Len(pattern))

domainMatchesPattern(domain, pattern) ==
  /\ Len(pattern) >= 2
  /\ pattern[1] = "*"
  /\ pattern[2] = "."
  /\ \/ EndsWith(domain, SubSeq(pattern, 2, Len(pattern)))
     \/ domain = SubSeq(pattern, 3, Len(pattern))

\* exact match on the name as given, then every pattern on lower-cased
\* name and lower-cased pattern
isDomainBlocked(r, domain) ==
  \/ domain \in r.blocked_domains
  \/ \E i \in 1..Len(r.domain_patterns) :
        domainMatchesPattern(ToLower(domain), ToLower(r.domain_patterns[i]))

\* mutant: the port rule consulted before the IP rule
shouldBlock_PortFirst(r, src_ip, dst_port, app, domain) ==
  IF isPortBlocked(r, dst_port) THEN <<"PORT">>
  ELSE IF isIPBlocked(r, src_ip) THEN <<"IP">>
  ELSE IF isAppBlocked(r, app) THEN <<"APP">>
  ELSE IF domain # <<>> /\ isDomainBlocked(r, domain) THEN <<"DOMAIN">>
  ELSE <<>>

\* std::optional<BlockReason>: <<>> is nullopt, <<type>> a reason of that
\* type (the detail string is only logged and is left out)
shouldBlock(r, src_ip, dst_port, app, domain) ==
  IF isIPBlocked(r, src_ip) THEN <<"IP">>
  ELSE IF isPortBlocked(r, dst_port) THEN <<"PORT">>
  ELSE IF isAppBlocked(r, app) THEN <<"APP">>
  ELSE IF domain # <<>> /\ isDomainBlocked(r, domain) THEN <<"DOMAIN">>
  ELSE <<>>

-----------------------------------------------------------------------------
(* The rule set driven through its interface: SpecRules and SpecDomain *)

NoQuery == [kind |-> "none", src_ip |-> 0, dst_port |-> 0, app |-> "UNKNOWN",
            domain |-> <<>>, reason |-> <<>>, blocked |-> FALSE]

\* the rule strings and names of SpecRules
RuleLiterals == {<<"a">>}
RulePatterns == {<<"*", ".", "a">>}

\* every wildcard rule "*.<suffix>" with a suffix over Alphabet
WildRules == {<<"*", ".">> \o s : s \in StringsUpTo(MaxSuffixLen)}
\* the literal rules of SpecDomain
LiteralRules == StringsUpTo(MaxSuffixLen) \ {<<>>}
Names == StringsUpTo(MaxNameLen)

\* the rule strings currently held, exact set and pattern vector together
DomainRulesOf(r) ==
  r.blocked_domains \cup {r.domain_patterns[i] : i \in 1..Len(r.domain_patterns)}

\* the worker's variables where no worker runs
NoFrame == [valid |-> FALSE, blockedAtArrival |-> FALSE,
            droppedEarlier |-> FALSE, action |-> "FORWARD",
            app_type |-> "UNKNOWN", sni |-> <<>>, sniffed |-> <<>>,
            sniHit |-> FALSE]
\* the queue checked on its own, where it does not run
QueueIdle ==
  /\ tsq = [items |-> <<>>, shutdown |-> FALSE] /\ max_size = 0
  /\ producers = <<>> /\ pops = 0 /\ consumer = <<>>
\* the capture reader checked on its own, where it does not run
PcapIdle == files = <<>> /\ pcap = <<>> /\ pf = <<>>
\* the variables of the parts checked on their own, where they do not run
RestIdle == QueueIdle /\ PcapIdle /\ sx = <<>> /\ call = <<>>
RestUnchanged == UNCHANGED <<queueVars, pcapVars, sx, call>>
\* the pipeline's variables where no engine runs
PipelineIdle ==
  /\ input = <<>> /\ hashOf = <<>> /\ mainPc = [at |-> "idle", k |-> 0]
  /\ running = FALSE /\ reader = [pos |-> 0, packet_id |-> 0]
  /\ stats = [total_packets |-> 0, forwarded_packets |-> 0, dropped_packets |-> 0]
  /\ lbs = <<>> /\ fps = <<>> /\ outq = [items |-> <<>>, shutdown |-> FALSE]
  /\ writerPc = "idle" /\ outFile = <<>> /\ flowLog = <<>>
\* rules, worker and pipeline where a part is checked on its own
CoreIdle ==
  /\ rm = NoRules /\ rq = NoQuery
  /\ conns = <<>> /\ clock = 0 /\ fpFlow = <<>> /\ fpLast = NoFrame
  /\ twin = <<>> /\ call = <<>>
  /\ PipelineIdle
\* the engine's variables where no engine runs
EngineIdle == PipelineIdle /\ RestIdle /\ twin = <<>>
PipelineUnchanged ==
  /\ RestUnchanged
  /\ UNCHANGED <<input, hashOf, mainPc, running, reader, stats, lbs, fps, outq,
                 writerPc, outFile, flowLog>>
EngineUnchanged == PipelineUnchanged /\ UNCHANGED twin
WorkerIdle ==
  conns = <<>> /\ clock = 0 /\ fpFlow = <<>> /\ fpLast = NoFrame /\ EngineIdle
WorkerUnchanged == UNCHANGED <<conns, clock, fpFlow, fpLast>> /\ EngineUnchanged

InitRules ==
  /\ rm = NoRules
  /\ rq = NoQuery
  /\ WorkerIdle

RBlockIP ==
  \E ip \in {1} : rm' = blockIP(rm, ip) /\ rq' = NoQuery /\ WorkerUnchanged

RUnblockIP ==
  \E ip \in {1} : rm' = unblockIP(rm, ip) /\ rq' = NoQuery /\ WorkerUnchanged

RBlockPort ==
  \E port \in {443} : rm' = blockPort(rm, port) /\ rq' = NoQuery /\ WorkerUnchanged

RUnblockPort ==
  \E port \in {443} : rm' = unblockPort(rm, port) /\ rq' = NoQuery /\ WorkerUnchanged

RBlockApp ==
  \E app \in {"YOUTUBE"} : rm' = blockApp(rm, app) /\ rq' = NoQuery /\ WorkerUnchanged

RUnblockApp ==
  \E app \in {"YOUTUBE"} : rm' = unblockApp(rm, app) /\ rq' = NoQuery /\ WorkerUnchanged

RBlockDomain ==
  \E d \in RuleLiterals \cup RulePatterns :
    /\ Len(rm.domain_patterns) < MaxPatterns
    /\ rm' = blockDomain(rm, d)
    /\ rq' = NoQuery
    /\ WorkerUnchanged

RUnblockDomain ==
  \E d \in RuleLiterals \cup RulePatterns :
    /\ rm' = unblockDomain(rm, d)
    /\ rq' = NoQuery
    /\ WorkerUnchanged

\* one call of shouldBlock on the current rule set (rq keeps one call: the
\* next one is recorded after rq has been cleared by a rule update)
RShouldBlock ==
  \E ip \in IPs, port \in {80, 443}, app \in {"UNKNOWN", "YOUTUBE"},
     d \in StringsUpTo(MaxSuffixLen) :
    /\ rq.kind = "none"
    /\ rq' = [kind |-> "shouldBlock", src_ip |-> ip, dst_port |-> port,
              app |-> app, domain |-> d,
              reason |-> shouldBlock(rm, ip, port, app, d),
              blocked |-> shouldBlock(rm, ip, port, app, d) # <<>>]
    /\ UNCHANGED rm
    /\ WorkerUnchanged

NextRules ==
  \/ RBlockIP \/ RUnblockIP
  \/ RBlockPort \/ RUnblockPort
  \/ RBlockApp \/ RUnblockApp
  \/ RBlockDomain \/ RUnblockDomain
  \/ RShouldBlock

SpecRules == InitRules /\ [][NextRules]_vars

\* SpecDomain: one domain rule at a time (literal or wildcard), inserted up
\* to MaxPatterns times, removed, and queried with every name
DBlockDomain ==
  \E d \in WildRules \cup LiteralRules :
    /\ DomainRulesOf(rm) \subseteq {d}
    /\ Len(rm.domain_patterns) < MaxPatterns
    /\ rm' = blockDomain(rm, d)
    /\ rq' = NoQuery
    /\ WorkerUnchanged

DUnblockDomain ==
  \E d \in WildRules \cup LiteralRules :
    /\ d \in DomainRulesOf(rm)
    /\ rm' = unblockDomain(rm, d)
    /\ rq' = NoQuery
    /\ WorkerUnchanged

DIsDomainBlocked ==
  \E d \in Names :
    /\ rq.kind = "none"
    /\ rq' = [NoQuery EXCEPT !.kind = "isDomainBlocked", !.domain = d,
                             !.blocked = isDomainBlocked(rm, d)]
    /\ UNCHANGED rm
    /\ WorkerUnchanged

NextDomain == DBlockDomain \/ DUnblockDomain \/ DIsDomainBlocked

SpecDomain == InitRules /\ [][NextDomain]_vars

-----------------------------------------------------------------------------
(* C9 *)

\* C9: shouldBlock checks source IP, destination port, application, domain
\* in this order and returns the reason of the first kind that matches: IP
\* whenever the source IP is blocked; PORT only if the IP is not; APP only
\* if neither IP nor port is; DOMAIN only if none of the three is and the
\* name is non-empty; no reason exactly when no kind matches.
C9_FirstMatchOrder ==
  rq.kind = "shouldBlock" =>
    LET ipHit == rq.src_ip \in rm.blocked_ips
        portHit == rq.dst_port \in rm.blocked_ports
        appHit == rq.app \in rm.blocked_apps
        domHit == rq.domain # <<>> /\ isDomainBlocked(rm, rq.domain)
    IN /\ ipHit => rq.reason = <<"IP">>
       /\ rq.reason = <<"IP">> => ipHit
       /\ rq.reason = <<"PORT">> <=> (~ipHit /\ portHit)
       /\ rq.reason = <<"APP">> <=> (~ipHit /\ ~portHit /\ appHit)
       /\ rq.reason = <<"DOMAIN">> <=> (~ipHit /\ ~portHit /\ ~appHit /\ domHit)
       /\ rq.reason = <<>> <=> ~(ipHit \/ portHit \/ appHit \/ domHit)

\* a call in which all four kinds match at once
C9_Witness ==
  /\ rq.kind = "shouldBlock"
  /\ rq.src_ip \in rm.blocked_ips
  /\ rq.dst_port \in rm.blocked_ports
  /\ rq.app \in rm.blocked_apps
  /\ rq.domain # <<>> /\ isDomainBlocked(rm, rq.domain)
  /\ rq.reason = <<"IP">>

-----------------------------------------------------------------------------
(* C10 *)

\* the single wildcard rule "*.<suffix>" under test, if the rule set holds
\* exactly that
OnlyWildRule(r) ==
  /\ r.blocked_domains = {}
  /\ Len(r.domain_patterns) >= 1
  /\ \A i \in 1..Len(r.domain_patterns) : r.domain_patterns[i] = r.domain_patterns[1]
  /\ r.domain_patterns[1] \in WildRules

SuffixOf(r) == SubSeq(r.domain_patterns[1], 3, Len(r.domain_patterns[1]))

\* C10 as stated: a wildcard rule *.<suffix> blocks a name if and only if
\* the lower-cased name ends with .<suffix> or equals <suffix>, the suffix
\* taken as written in the rule.
C10_AsStated ==
  (rq.kind = "isDomainBlocked" /\ OnlyWildRule(rm)) =>
    (rq.blocked <=> \/ EndsWith(ToLower(rq.domain), <<".">> \o SuffixOf(rm))
                    \/ ToLower(rq.domain) = SuffixOf(rm))

\* C10 amended: a wildcard rule *.<suffix> blocks a name if and only if the
\* lower-cased name ends with the lower-cased .<suffix> or equals the
\* lower-cased <suffix>.
C10_WildcardIff ==
  (rq.kind = "isDomainBlocked" /\ OnlyWildRule(rm)) =>
    (rq.blocked <=> \/ EndsWith(ToLower(rq.domain), <<".">> \o ToLower(SuffixOf(rm)))
                    \/ ToLower(rq.domain) = ToLower(SuffixOf(rm)))

\* the rule *.a queried with the name "aa", which ends with the suffix but
\* not with the dot before it, and is not blocked
C10_Witness ==
  /\ rq.kind = "isDomainBlocked"
  /\ OnlyWildRule(rm)
  /\ SuffixOf(rm) = <<"a">>
  /\ rq.domain = <<"a", "a">>
  /\ ~rq.blocked

-----------------------------------------------------------------------------
(* Application mapper *)

\* the ordered pattern table of sniToAppType: <<tag, substrings>>
AppPatterns == <<
  <<"GOOGLE", {<<"g", "o", "o", "g", "l", "e">>,
      <<"g", "s", "t", "a", "t", "i", "c">>,
      <<"g", "o", "o", "g", "l", "e", "a", "p", "i", "s">>,
      <<"g", "g", "p", "h", "t">>,
      <<"g", "v", "t", "1">>}>>,
  <<"YOUTUBE", {<<"y", "o", "u", "t", "u", "b", "e">>,
      <<"y", "t", "i", "m", "g">>,
      <<"y", "o", "u", "t", "u", ".", "b", "e">>,
      <<"y", "t", "3", ".", "g", "g", "p", "h", "t">>}>>,
  <<"FACEBOOK", {<<"f", "a", "c", "e", "b", "o", "o", "k">>,
      <<"f", "b", "c", "d", "n">>,
      <<"f", "b", ".", "c", "o", "m">>,
      <<"f", "b", "s", "b", "x">>,
      <<"m", "e", "t", "a", ".", "c", "o", "m">>}>>,
  <<"INSTAGRAM", {<<"i", "n", "s", "t", "a", "g", "r", "a", "m">>,
      <<"c", "d", "n", "i", "n", "s", "t", "a", "g", "r", "a", "m">>}>>,
  <<"WHATSAPP", {<<"w", "h", "a", "t", "s", "a", "p", "p">>,
      <<"w", "a", ".", "m", "e">>}>>,
  <<"TWITTER", {<<"t", "w", "i", "t", "t", "e", "r">>,
      <<"t", "w", "i", "m", "g">>,
      <<"x", ".", "c", "o", "m">>,
      <<"t", ".", "c", "o">>}>>,
  <<"NETFLIX", {<<"n", "e", "t", "f", "l", "i", "x">>,
      <<"n", "f", "l", "x", "v", "i", "d", "e", "o">>,
      <<"n", "f", "l", "x", "i", "m", "g">>}>>,
  <<"AMAZON", {<<"a", "m", "a", "z", "o", "n">>,
      <<"a", "m", "a", "z", "o", "n", "a", "w", "s">>,
      <<"c", "l", "o", "u", "d", "f", "r", "o", "n", "t">>,
      <<"a", "w", "s">>}>>,
  <<"MICROSOFT", {<<"m", "i", "c", "r", "o", "s", "o", "f", "t">>,
      <<"m", "s", "n", ".", "c", "o", "m">>,
      <<"o", "f", "f", "i", "c", "e">>,
      <<"a", "z", "u", "r", "e">>,
      <<"l", "i", "v", "e", ".", "c", "o", "m">>,
      <<"o", "u", "t", "l", "o", "o", "k">>,
      <<"b", "i", "n", "g">>}>>,
  <<"APPLE", {<<"a", "p", "p", "l", "e">>,
      <<"i", "c", "l", "o", "u", "d">>,
      <<"m", "z", "s", "t", "a", "t", "i", "c">>,
      <<"i", "t", "u", "n", "e", "s">>}>>,
  <<"TELEGRAM", {<<"t", "e", "l", "e", "g", "r", "a", "m">>,
      <<"t", ".", "m", "e">>}>>,
  <<"TIKTOK", {<<"t", "i", "k", "t", "o", "k">>,
      <<"t", "i", "k", "t", "o", "k", "c", "d", "n">>,
      <<"m", "u", "s", "i", "c", "a", "l", ".", "l", "y">>,
      <<"b", "y", "t", "e", "d", "a", "n", "c", "e">>}>>,
  <<"SPOTIFY", {<<"s", "p", "o", "t", "i", "f", "y">>,
      <<"s", "c", "d", "n", ".", "c", "o">>}>>,
  <<"ZOOM", {<<"z", "o", "o", "m">>}>>,
  <<"DISCORD", {<<"d", "i", "s", "c", "o", "r", "d">>,
      <<"d", "i", "s", "c", "o", "r", "d", "a", "p", "p">>}>>,
  <<"GITHUB", {<<"g", "i", "t", "h", "u", "b">>,
      <<"g", "i", "t", "h", "u", "b", "u", "s", "e", "r", "c", "o", "n", "t", "e", "n", "t">>}>>,
  <<"CLOUDFLARE", {<<"c", "l", "o", "u", "d", "f", "l", "a", "r", "e">>,
      <<"c", "f", "-">>}>>
>>

RECURSIVE FirstApp(_, _)
\* the tag of the first table entry, from entry k on, one of whose
\* substrings occurs in the lower-cased name; HTTPS when there is none
FirstApp(lower, k) ==
  IF k > Len(AppPatterns) THEN "HTTPS"
  ELSE IF \E pat \in AppPatterns[k][2] : Contains(lower, pat)
         THEN AppPatterns[k][1]
         ELSE FirstApp(lower, k + 1)

sniToAppType(sni) ==
  IF sni = <<>> THEN "UNKNOWN" ELSE FirstApp(ToLower(sni), 1)

\* the names frames carry, and sniToAppType tabulated on them
NameYT == <<"y", "t", "i", "m", "g">>
NameBA == <<"b", ".", "a">>
\* the name of the DNS queries, and a literal it contains
NameTT == <<"t", "i", "k", "t", "o", "k", ".", "c", "o", "m">>
LiteralTT == <<"t", "i", "k", "t", "o", "k">>
FrameNames == {NameYT, NameBA}
AppOfFrameName == [n \in FrameNames |-> sniToAppType(n)]
AppOf(sni) == IF sni \in FrameNames THEN AppOfFrameName[sni] ELSE sniToAppType(sni)

-----------------------------------------------------------------------------
(* Worker: ConnectionTracker and FastPathProcessor *)

\* one bit of the TCP flag byte (mask is a power of two)
FlagSet(flags, mask) == (flags \div mask) % 2 = 1
SYN == 2
ACK == 16
FIN == 1
RST == 4

\* a fresh Connection as getOrCreateConnection builds it (the packet and
\* byte counters and the action field are written and never read: left out)
NewConnection(now) ==
  [state |-> "NEW", app_type |-> "UNKNOWN", sni |-> <<>>,
   syn_seen |-> FALSE, syn_ack_seen |-> FALSE, fin_seen |-> FALSE,
   last_seen |-> now]

\* an eviction that takes any entry, whatever its last_seen
Oldest_Any(tbl) == DOMAIN tbl

\* the entries evictOldest may erase: one with the least last_seen (which
\* of several is the iteration order of the unordered_map)
Oldest(tbl) ==
  {t \in DOMAIN tbl : \A u \in DOMAIN tbl : tbl[t].last_seen <= tbl[u].last_seen}

Erase(tbl, t) == [u \in (DOMAIN tbl) \ {t} |-> tbl[u]]

evictOldest(tbl, victim) ==
  IF DOMAIN tbl = {} THEN tbl ELSE Erase(tbl, victim)

\* the table with an entry for the tuple; victim is the entry evictOldest
\* picks when the table is full
getOrCreateConnection(tbl, tuple, now, victim) ==
  IF tuple \in DOMAIN tbl THEN tbl
  ELSE LET kept == IF Cardinality(DOMAIN tbl) >= MaxConnections
                     THEN evictOldest(tbl, victim) ELSE tbl
       IN [u \in (DOMAIN kept) \cup {tuple} |->
             IF u = tuple THEN NewConnection(now) ELSE kept[u]]

updateConnection(conn, now) == [conn EXCEPT !.last_seen = now]

classifyConnection(conn, app, sni) ==
  IF conn.state # "CLASSIFIED"
    THEN [conn EXCEPT !.app_type = app, !.sni = sni, !.state = "CLASSIFIED"]
    ELSE conn

blockConnection(conn) == [conn EXCEPT !.state = "BLOCKED"]

\* erase every entry older than the timeout or CLOSED
cleanupStale(tbl, now, timeout) ==
  [t \in {u \in DOMAIN tbl :
            ~(now - tbl[u].last_seen > timeout \/ tbl[u].state = "CLOSED")}
     |-> tbl[t]]

\* an updateTCPState whose handshake test does not look at the state
updateTCPState_AnyState(conn, tcp_flags) ==
  LET c1 == IF FlagSet(tcp_flags, SYN)
              THEN IF FlagSet(tcp_flags, ACK)
                     THEN [conn EXCEPT !.syn_ack_seen = TRUE]
                     ELSE [conn EXCEPT !.syn_seen = TRUE]
              ELSE conn
      c2 == IF c1.syn_seen /\ c1.syn_ack_seen /\ FlagSet(tcp_flags, ACK)
              THEN [c1 EXCEPT !.state = "ESTABLISHED"] ELSE c1
      c3 == IF FlagSet(tcp_flags, FIN) THEN [c2 EXCEPT !.fin_seen = TRUE] ELSE c2
      c4 == IF FlagSet(tcp_flags, RST) THEN [c3 EXCEPT !.state = "CLOSED"] ELSE c3
  IN IF c4.fin_seen /\ FlagSet(tcp_flags, ACK)
       THEN [c4 EXCEPT !.state = "CLOSED"] ELSE c4

updateTCPState(conn, tcp_flags) ==
  LET c1 == IF FlagSet(tcp_flags, SYN)
              THEN IF FlagSet(tcp_flags, ACK)
                     THEN [conn EXCEPT !.syn_ack_seen = TRUE]
                     ELSE [conn EXCEPT !.syn_seen = TRUE]
              ELSE conn
      c2 == IF /\ c1.syn_seen /\ c1.syn_ack_seen /\ FlagSet(tcp_flags, ACK)
               /\ c1.state = "NEW"
              THEN [c1 EXCEPT !.state = "ESTABLISHED"] ELSE c1
      c3 == IF FlagSet(tcp_flags, FIN) THEN [c2 EXCEPT !.fin_seen = TRUE] ELSE c2
      c4 == IF FlagSet(tcp_flags, RST) THEN [c3 EXCEPT !.state = "CLOSED"] ELSE c3
  IN IF c4.fin_seen /\ FlagSet(tcp_flags, ACK)
       THEN [c4 EXCEPT !.state = "CLOSED"] ELSE c4

\* The payload of a frame is kept as its length and what each sniffer
\* returns on its bytes: <<>> for no match, <<name>> for a name.
SNIExtract(payload) == payload.sni
HTTPHostExtract(payload) == payload.host
DNSExtractQuery(payload) == payload.dns

\* <<hit, conn>>
tryExtractSNI(job, conn) ==
  IF job.tuple.dst_port # 443 /\ job.payload.len < 50 THEN <<FALSE, conn>>
  ELSE IF job.payload.len = 0 THEN <<FALSE, conn>>
  ELSE IF SNIExtract(job.payload) # <<>>
    THEN <<TRUE, classifyConnection(conn, AppOf(SNIExtract(job.payload)[1]),
                                    SNIExtract(job.payload)[1])>>
    ELSE <<FALSE, conn>>

tryExtractHTTPHost(job, conn) ==
  IF job.tuple.dst_port # 80 THEN <<FALSE, conn>>
  ELSE IF job.payload.len = 0 THEN <<FALSE, conn>>
  ELSE IF HTTPHostExtract(job.payload) # <<>>
    THEN <<TRUE, classifyConnection(conn, AppOf(HTTPHostExtract(job.payload)[1]),
                                    HTTPHostExtract(job.payload)[1])>>
    ELSE <<FALSE, conn>>

inspectPayload(job, conn) ==
  IF job.payload.len = 0 THEN conn
  ELSE IF tryExtractSNI(job, conn)[1] THEN tryExtractSNI(job, conn)[2]
  ELSE IF tryExtractHTTPHost(job, conn)[1] THEN tryExtractHTTPHost(job, conn)[2]
  ELSE IF /\ (job.tuple.dst_port = 53 \/ job.tuple.src_port = 53)
          /\ DNSExtractQuery(job.payload) # <<>>
    THEN classifyConnection(conn, "DNS", DNSExtractQuery(job.payload)[1])
  ELSE IF job.tuple.dst_port = 80 THEN classifyConnection(conn, "HTTP", <<>>)
  ELSE IF job.tuple.dst_port = 443 THEN classifyConnection(conn, "HTTPS", <<>>)
  ELSE conn

\* checkRules handing shouldBlock an empty server name
checkRules_NoName(r, job, conn) ==
  IF shouldBlock(r, job.tuple.src_ip, job.tuple.dst_port, conn.app_type, <<>>) # <<>>
    THEN <<blockConnection(conn), "DROP">>
    ELSE <<conn, "FORWARD">>

\* <<conn, action>>
checkRules(r, job, conn) ==
  IF shouldBlock(r, job.tuple.src_ip, job.tuple.dst_port, conn.app_type, conn.sni) # <<>>
    THEN <<blockConnection(conn), "DROP">>
    ELSE <<conn, "FORWARD">>

\* processPacket on an existing entry: <<conn, action>>
processConnection(r, job, conn0, now) ==
  LET c1 == updateConnection(conn0, now)
      c2 == IF job.tuple.protocol = 6 THEN updateTCPState(c1, job.tcp_flags) ELSE c1
  IN IF c2.state = "BLOCKED" THEN <<c2, "DROP">>
     ELSE LET c3 == IF c2.state # "CLASSIFIED" /\ job.payload.len > 0
                      THEN inspectPayload(job, c2) ELSE c2
          IN checkRules(r, job, c3)

\* processPacket: <<table, action>>
processPacket(tbl, r, job, now, victim) ==
  LET t1 == getOrCreateConnection(tbl, job.tuple, now, victim)
      res == processConnection(r, job, t1[job.tuple], now)
  IN <<[t1 EXCEPT ![job.tuple] = res[1]], res[2]>>

-----------------------------------------------------------------------------
(* SpecFP: one worker fed with arbitrary frames of one flow *)

FPTuples ==
  {[src_ip |-> 1, dst_ip |-> 9, src_port |-> 1000, dst_port |-> 443, protocol |-> 6],
   [src_ip |-> 2, dst_ip |-> 9, src_port |-> 1000, dst_port |-> 80, protocol |-> 6],
   [src_ip |-> 2, dst_ip |-> 9, src_port |-> 1000, dst_port |-> 53, protocol |-> 17]}

\* every combination of FIN, SYN, RST and ACK
FlagBytes == {a + b + c + d : a \in {0, FIN}, b \in {0, SYN}, c \in {0, RST}, d \in {0, ACK}}

\* the flag bytes a frame of the tuple can carry (zero for UDP)
FlagsOf(tuple) == IF tuple.protocol = 6 THEN FlagBytes ELSE {0}

NoPayload == [len |-> 0, sni |-> <<>>, host |-> <<>>, dns |-> <<>>]
Payloads ==
  {NoPayload,
   [len |-> 10, sni |-> <<>>, host |-> <<>>, dns |-> <<>>],
   [len |-> 30, sni |-> <<>>, host |-> <<NameBA>>, dns |-> <<>>],
   [len |-> 30, sni |-> <<>>, host |-> <<>>, dns |-> <<NameTT>>]}
  \cup {[len |-> 60, sni |-> <<n>>, host |-> <<>>, dns |-> <<>>] : n \in FrameNames}

\* the rule sets the worker is run with
FPRuleSets ==
  {NoRules,
   blockIP(NoRules, 2),
   blockPort(NoRules, 53),
   blockApp(NoRules, "YOUTUBE"),
   blockDomain(NoRules, <<"*", ".", "a">>),
   blockDomain(NoRules, LiteralTT)}

InitFP ==
  /\ rm \in FPRuleSets
  /\ rq = NoQuery
  /\ conns = <<>>
  /\ clock = 0
  /\ fpFlow \in FPTuples
  /\ fpLast = NoFrame
  /\ EngineIdle

WasBlockedAtArrival(tbl, t) == t \in DOMAIN tbl /\ tbl[t].state = "BLOCKED"

\* the server name the sniffers find in the frame (none: <<>>), which is the
\* name inspectPayload gives a fresh record
Sniffed(job) == inspectPayload(job, NewConnection(0)).sni

\* processPacket on one more frame of the flow
FPProcess ==
  \E f \in FlagsOf(fpFlow), p \in Payloads :
    LET job == [tuple |-> fpFlow, tcp_flags |-> f, payload |-> p]
        res == processPacket(conns, rm, job, clock, fpFlow)
    IN /\ conns' = res[1]
       /\ fpLast' = [valid |-> TRUE,
                     blockedAtArrival |-> WasBlockedAtArrival(conns, fpFlow),
                     droppedEarlier |->
                        fpLast.valid /\ (fpLast.droppedEarlier \/ fpLast.action = "DROP"),
                     action |-> res[2],
                     app_type |-> res[1][fpFlow].app_type,
                     sni |-> res[1][fpFlow].sni,
                     sniffed |-> Sniffed(job),
                     sniHit |-> tryExtractSNI(job, NewConnection(0))[1]]
       /\ UNCHANGED <<rm, rq, clock, fpFlow>>
       /\ EngineUnchanged

\* popWithTimeout timed out: the worker sweeps its table
FPIdle ==
  /\ conns' = cleanupStale(conns, clock, StaleTicks)
  /\ UNCHANGED <<rm, rq, clock, fpFlow, fpLast>>
  /\ EngineUnchanged

FPTick ==
  /\ clock < MaxClock
  /\ clock' = clock + 1
  /\ UNCHANGED <<rm, rq, conns, fpFlow, fpLast>>
  /\ EngineUnchanged

NextFP == FPProcess \/ FPIdle \/ FPTick

SpecFP == InitFP /\ [][NextFP]_vars

-----------------------------------------------------------------------------
(* C1 *)

\* C1: stickiness -- once processPacket has returned DROP for a frame of a
\* five-tuple, every later frame of the same five-tuple is dropped too,
\* whatever its TCP flags and payload.
C1_Stickiness ==
  (fpLast.valid /\ fpLast.droppedEarlier) => fpLast.action = "DROP"

-----------------------------------------------------------------------------
(* C2 *)

\* C2: for a frame whose flow is not blocked when the frame arrives, the
\* verdict is DROP if and only if shouldBlock on the frame's source IP and
\* destination port and the flow's application tag and server name after
\* the frame's classification step returns a reason; otherwise FORWARD.
C2_VerdictIsShouldBlock ==
  (fpLast.valid /\ ~fpLast.blockedAtArrival) =>
    LET reason == shouldBlock(rm, fpFlow.src_ip, fpFlow.dst_port,
                              fpLast.app_type, fpLast.sni)
    IN /\ fpLast.action = "DROP" <=> reason # <<>>
       /\ fpLast.action = "FORWARD" <=> reason = <<>>

\* a frame of a flow that was not blocked, classified by this frame or an
\* earlier one with a server name, and dropped for its domain
C2_Witness ==
  /\ fpLast.valid /\ ~fpLast.blockedAtArrival
  /\ fpLast.sni # <<>>
  /\ fpLast.action = "DROP"
  /\ shouldBlock(rm, fpFlow.src_ip, fpFlow.dst_port, fpLast.app_type, fpLast.sni)
       = <<"DOMAIN">>

-----------------------------------------------------------------------------
(* C11 *)

\* C11: a domain rule given as a bare literal blocks every flow whose
\* extracted name contains the literal: with the single rule tiktok, a UDP
\* frame to port 53 whose payload is a DNS query for tiktok.com is dropped.
C11_LiteralBlocksContainingName ==
  (/\ fpLast.valid /\ ~fpLast.blockedAtArrival
   /\ rm = blockDomain(NoRules, LiteralTT)
   /\ fpFlow.protocol = 17 /\ fpFlow.dst_port = 53
   /\ fpLast.sni = NameTT /\ Contains(fpLast.sni, LiteralTT))
    => fpLast.action = "DROP"

-----------------------------------------------------------------------------
(* C12 *)

\* C12: blocked is absorbing and short-circuits -- once the record of a flow
\* is BLOCKED, a later frame of the flow is dropped, the record stays
\* BLOCKED and its application tag and server name stay as they were (no
\* classifier and no rule is run again).
C12_BlockedAbsorbing ==
  [][(/\ fpFlow \in DOMAIN conns
      /\ conns[fpFlow].state = "BLOCKED"
      /\ fpFlow \in DOMAIN conns')
       => /\ conns'[fpFlow].state = "BLOCKED"
          /\ conns'[fpFlow].app_type = conns[fpFlow].app_type
          /\ conns'[fpFlow].sni = conns[fpFlow].sni
          /\ (fpLast' # fpLast => fpLast'.action = "DROP")]_vars

-----------------------------------------------------------------------------
(* C13 *)

\* C13: in every reachable state, a flow record whose state is CLASSIFIED
\* has a non-empty server name and an application tag other than UNKNOWN.
C13_ClassifiedHasName ==
  \A t \in DOMAIN conns :
    conns[t].state = "CLASSIFIED"
      => (conns[t].sni # <<>> /\ conns[t].app_type # "UNKNOWN")

-----------------------------------------------------------------------------
(* ThreadSafeQueue *)

\* max_size_ of every queue of the engine
QueueCapacity == 10000

EmptyQueue == [items |-> <<>>, shutdown |-> FALSE]

\* a push that never waits, whatever the size
pushReady_Unbounded(q, cap) == TRUE

\* a predicate that looks at the size only, not at shutdown_
pushReady_RoomOnly(q, cap) == Len(q.items) < cap

\* the predicate push waits on under the mutex: room, or shut down
pushReady(q, cap) == Len(q.items) < cap \/ q.shutdown

\* push returns at once when there is room or the queue is shut down
\* (max_size holds the max_size_ the engine's queues are built with)
CanPush(q) == pushReady(q, max_size)

\* a push that appends to a queue that is shut down as well
push_Always(q, item) == [q EXCEPT !.items = Append(@, item)]

\* push: the item is discarded when the queue is shut down
push(q, item) ==
  IF q.shutdown THEN q ELSE [q EXCEPT !.items = Append(@, item)]

\* popWithTimeout that returns the front item and leaves it in the queue
popWithTimeout_Peek(q) ==
  IF q.items = <<>> THEN <<<<>>, q>> ELSE <<<<Head(q.items)>>, q>>

\* popWithTimeout that takes the item pushed last
popWithTimeout_Lifo(q) ==
  IF q.items = <<>> THEN <<<<>>, q>>
  ELSE <<<<q.items[Len(q.items)]>>,
         [q EXCEPT !.items = SubSeq(@, 1, Len(@) - 1)]>>

\* popWithTimeout: <<optional item, queue>>; no item from an empty queue
\* (timeout or shutdown), the front item otherwise, shut down or not
popWithTimeout(q) ==
  IF q.items = <<>> THEN <<<<>>, q>>
  ELSE <<<<Head(q.items)>>, [q EXCEPT !.items = Tail(@)]>>

shutdown(q) == [q EXCEPT !.shutdown = TRUE]

-----------------------------------------------------------------------------
(* One ThreadSafeQueue with its producers and a consumer *)

\* threads that push
NumProducers == 2
\* calls of push or tryPush they make in all
MaxPushes == 3
\* largest max_size_ the queue is built with
MaxSize == 2

ProducerIds == 1 .. NumProducers

RECURSIVE CallsMade(_, _)
\* calls of push and tryPush made so far by producers 1 .. n
CallsMade(ps, n) == IF n = 0 THEN 0 ELSE ps[n].calls + CallsMade(ps, n - 1)

InitQueue ==
  /\ CoreIdle /\ PcapIdle /\ sx = <<>>
  /\ tsq = EmptyQueue
  /\ max_size \in 1 .. MaxSize
  /\ producers = [p \in ProducerIds |->
                    [pc |-> "idle", calls |-> 0, item |-> <<>>, waited |-> FALSE,
                     result |-> "none", popsAtCall |-> 0, notified |-> FALSE]]
  /\ pops = 0
  /\ consumer = [pc |-> "idle", notified |-> FALSE, waited |-> FALSE,
                 result |-> "none", got |-> <<>>, shutdownSeen |-> FALSE,
                 drained |-> 0]

QueueFrame == UNCHANGED <<coreVars, pcapVars, sx, call, max_size>>

\* the predicate pop and popWithTimeout wait for
popReady(q) == q.items # <<>> \/ q.shutdown

\* not_empty_.notify_one() after an item went in: the consumer, if it waits
NotifyConsumer(added) ==
  consumer' = IF added /\ consumer.pc # "idle"
                THEN [consumer EXCEPT !.notified = TRUE] ELSE consumer

\* push up to its wait: with room or after shutdown it completes at once
\* (the item is appended, or dropped after shutdown), else the thread waits
\* on not_full_
PushCall(p) ==
  /\ producers[p].pc = "idle"
  /\ CallsMade(producers, NumProducers) < MaxPushes
  /\ LET item == <<p, producers[p].calls + 1>>
     IN IF pushReady(tsq, max_size)
          THEN /\ tsq' = push(tsq, item)
               /\ producers' = [producers EXCEPT
                     ![p] = [pc |-> "idle", calls |-> @.calls + 1, item |-> item,
                             waited |-> FALSE,
                             result |-> IF tsq.shutdown THEN "discarded" ELSE "enqueued",
                             popsAtCall |-> pops, notified |-> FALSE]]
               /\ NotifyConsumer(~tsq.shutdown)
          ELSE /\ tsq' = tsq
               /\ producers' = [producers EXCEPT
                     ![p] = [pc |-> "waiting", calls |-> @.calls + 1, item |-> item,
                             waited |-> TRUE, result |-> "none",
                             popsAtCall |-> pops, notified |-> FALSE]]
               /\ consumer' = consumer
  /\ pops' = pops
  /\ QueueFrame

\* push after its wait: the thread is awake (notified or not), has the mutex
\* again and the predicate holds
PushWake(p) ==
  /\ producers[p].pc = "waiting"
  /\ pushReady(tsq, max_size)
  /\ tsq' = push(tsq, producers[p].item)
  /\ producers' = [producers EXCEPT
        ![p].pc = "idle", ![p].notified = FALSE,
        ![p].result = IF tsq.shutdown THEN "discarded" ELSE "enqueued"]
  /\ NotifyConsumer(~tsq.shutdown)
  /\ pops' = pops
  /\ QueueFrame

\* push woken by a notification that finds the queue full again: it waits on
PushRewait(p) ==
  /\ producers[p].pc = "waiting" /\ producers[p].notified
  /\ ~pushReady(tsq, max_size)
  /\ producers' = [producers EXCEPT ![p].notified = FALSE]
  /\ UNCHANGED <<tsq, pops, consumer>>
  /\ QueueFrame

\* tryPush: false from a full or shut-down queue
TryPush(p) ==
  /\ producers[p].pc = "idle"
  /\ CallsMade(producers, NumProducers) < MaxPushes
  /\ LET item == <<p, producers[p].calls + 1>>
         refused == Len(tsq.items) >= max_size \/ tsq.shutdown
     IN /\ tsq' = IF refused THEN tsq ELSE [tsq EXCEPT !.items = Append(@, item)]
        /\ producers' = [producers EXCEPT
              ![p] = [pc |-> "idle", calls |-> @.calls + 1, item |-> item,
                      waited |-> FALSE,
                      result |-> IF refused THEN "refused" ELSE "enqueued",
                      popsAtCall |-> pops, notified |-> FALSE]]
        /\ NotifyConsumer(~refused)
  /\ pops' = pops
  /\ QueueFrame

\* pop and popWithTimeout once their predicate holds: the front item, or no
\* item from the empty queue; not_full_.notify_one() after an item came out
PopReturn ==
  LET got == popWithTimeout(tsq)
      waiters == {w \in ProducerIds :
                    producers[w].pc = "waiting" /\ ~producers[w].notified}
  IN /\ tsq' = got[2]
     /\ consumer' = [pc |-> "idle", notified |-> FALSE,
                     waited |-> consumer.pc # "idle",
                     result |-> IF got[1] = <<>> THEN "nullopt" ELSE "item",
                     got |-> got[1], shutdownSeen |-> tsq.shutdown,
                     drained |-> IF tsq.shutdown /\ got[1] # <<>>
                                   THEN consumer.drained + 1 ELSE consumer.drained]
     /\ pops' = IF got[1] = <<>> THEN pops ELSE pops + 1
     /\ IF got[1] = <<>> \/ waiters = {}
          THEN producers' = producers
          ELSE \E w \in waiters : producers' = [producers EXCEPT ![w].notified = TRUE]

\* a consumer's pop or popWithTimeout up to its wait: it returns at once
\* from a queue that holds an item or is shut down, else the thread waits on
\* not_empty_
QueuePop ==
  /\ consumer.pc = "idle"
  /\ IF popReady(tsq)
       THEN PopReturn
       ELSE /\ \E entered \in {"pop", "popWithTimeout"} :
                 consumer' = [consumer EXCEPT !.pc = entered, !.notified = FALSE]
            /\ UNCHANGED <<tsq, pops, producers>>
  /\ QueueFrame

\* pop and popWithTimeout after their wait
PopWake ==
  /\ consumer.pc # "idle"
  /\ popReady(tsq)
  /\ PopReturn
  /\ QueueFrame

\* popWithTimeout: the time is up and the queue is still empty and open
PopTimeout ==
  /\ consumer.pc = "popWithTimeout"
  /\ ~popReady(tsq)
  /\ PopReturn
  /\ QueueFrame

\* shutdown: the flag, then notify_all on both condition variables
QueueShutdown ==
  /\ ~tsq.shutdown
  /\ tsq' = shutdown(tsq)
  /\ producers' = [p \in ProducerIds |->
                     IF producers[p].pc = "waiting"
                       THEN [producers[p] EXCEPT !.notified = TRUE]
                       ELSE producers[p]]
  /\ consumer' = IF consumer.pc # "idle"
                   THEN [consumer EXCEPT !.notified = TRUE] ELSE consumer
  /\ pops' = pops
  /\ QueueFrame

NextQueue ==
  \/ \E p \in ProducerIds : PushCall(p) \/ PushWake(p) \/ PushRewait(p) \/ TryPush(p)
  \/ QueuePop \/ PopWake \/ PopTimeout
  \/ QueueShutdown

SpecQueue == InitQueue /\ [][NextQueue]_vars

-----------------------------------------------------------------------------
(* C15 *)

\* C15: the queue never holds more than max_size items, and a push that
\* found the queue full returns only when the queue has been shut down, or
\* when a consumer has removed an item since the call, and then with its
\* item appended.
C15_BoundedWithBackpressure ==
  /\ [](Len(tsq.items) <= max_size)
  /\ [][\A p \in DOMAIN producers :
         (producers[p].pc = "waiting" /\ producers'[p].pc = "idle")
           => \/ tsq.shutdown
              \/ /\ pops > producers[p].popsAtCall
                 /\ tsq'.items = Append(tsq.items, producers[p].item)]_vars

\* a push waited on the full queue and returned with its item in the
\* queue, which is full again
C15_Witness ==
  \E p \in DOMAIN producers :
    /\ producers[p].pc = "idle" /\ producers[p].waited
    /\ producers[p].result = "enqueued"
    /\ ~tsq.shutdown
    /\ Len(tsq.items) = max_size
    /\ tsq.items[Len(tsq.items)] = producers[p].item

-----------------------------------------------------------------------------
(* PcapReader and processFile as the capture file sees them *)

\* most records of a capture file
MaxRecords == 2

\* An unsigned 16- or 32-bit value is the tuple of its bytes, the most
\* significant first.
PCAP_MAGIC_NATIVE == <<161, 178, 195, 212>>
PCAP_MAGIC_SWAPPED == <<212, 195, 178, 161>>
U32(n) == <<(n \div 16777216) % 256, (n \div 65536) % 256, (n \div 256) % 256, n % 256>>

RECURSIVE ToNat(_)
\* the number a value of at most 31 bits stands for
ToNat(v) == IF v = <<>> THEN 0 ELSE v[Len(v)] + 256 * ToNat(SubSeq(v, 1, Len(v) - 1))

RECURSIVE Gt(_, _)
\* a > b, for unsigned values of one width
Gt(a, b) ==
  IF a = <<>> THEN FALSE
  ELSE IF Head(a) # Head(b) THEN Head(a) > Head(b)
  ELSE Gt(Tail(a), Tail(b))

\* the bytes of a value in the memory of the (little-endian) host: the
\* least significant first
HostBytes(v) == [i \in 1..Len(v) |-> v[Len(v) + 1 - i]]

\* the value the host reads from these bytes
FromHost(b) == [i \in 1..Len(b) |-> b[Len(b) + 1 - i]]

\* ((value & 0xFF00) >> 8) | ((value & 0x00FF) << 8)
maybeSwap16(needs_byte_swap, value) ==
  IF ~needs_byte_swap THEN value ELSE <<value[2], value[1]>>

\* the four bytes of the value in the opposite order
maybeSwap32(needs_byte_swap, value) ==
  IF ~needs_byte_swap THEN value ELSE <<value[4], value[3], value[2], value[1]>>

\* a field as a capture tool of the given byte order writes it
FieldBytes(order, v) ==
  IF order = "swapped" THEN v ELSE HostBytes(v)

\* the 24 bytes of a global header: pcap 2.4, Ethernet, written in the
\* given byte order ("other": host order, with the magic of a pcapng file,
\* which is no pcap magic)
FileHeader(order, snaplen) ==
  FieldBytes(order, IF order = "other" THEN <<10, 13, 13, 10>> ELSE PCAP_MAGIC_NATIVE)
  \o FieldBytes(order, <<0, 2>>) \o FieldBytes(order, <<0, 4>>)
  \o FieldBytes(order, U32(0)) \o FieldBytes(order, U32(0))
  \o FieldBytes(order, U32(snaplen)) \o FieldBytes(order, U32(1))

\* file_.read into global_header_: the struct as the host sees the bytes
decodeHeader(b) ==
  [magic_number |-> FromHost(SubSeq(b, 1, 4)),
   version_major |-> FromHost(SubSeq(b, 5, 6)),
   version_minor |-> FromHost(SubSeq(b, 7, 8)),
   thiszone |-> FromHost(SubSeq(b, 9, 12)),
   sigfigs |-> FromHost(SubSeq(b, 13, 16)),
   snaplen |-> FromHost(SubSeq(b, 17, 20)),
   network |-> FromHost(SubSeq(b, 21, 24))]

\* writeOutputHeader: the 24 bytes of the struct it is given
writeOutputHeader(h) ==
  HostBytes(h.magic_number) \o HostBytes(h.version_major)
  \o HostBytes(h.version_minor) \o HostBytes(h.thiszone)
  \o HostBytes(h.sigfigs) \o HostBytes(h.snaplen)
  \o HostBytes(h.network)

ClosedReader ==
  [is_open |-> FALSE, global_header |-> decodeHeader([i \in 1..24 |-> 0]),
   needs_byte_swap |-> FALSE,
   pos |-> 0,
   last |-> [valid |-> FALSE, index |-> 0, incl_len |-> U32(0), accepted |-> FALSE]]

\* PcapReader::open: <<ok, reader>>
open(f) ==
  IF ~f.exists \/ Len(f.header) < 24 THEN <<FALSE, ClosedReader>>
  ELSE LET h == decodeHeader(f.header)
       IN IF h.magic_number = PCAP_MAGIC_NATIVE
            THEN <<TRUE, [ClosedReader EXCEPT !.is_open = TRUE, !.global_header = h]>>
          ELSE IF h.magic_number = PCAP_MAGIC_SWAPPED
            THEN <<TRUE, [ClosedReader EXCEPT
                            !.is_open = TRUE, !.needs_byte_swap = TRUE,
                            !.global_header =
                               [h EXCEPT !.version_major = maybeSwap16(TRUE, @),
                                         !.version_minor = maybeSwap16(TRUE, @),
                                         !.snaplen = maybeSwap32(TRUE, @),
                                         !.network = maybeSwap32(TRUE, @)]]>>
          ELSE <<FALSE, ClosedReader>>

\* the sanity check with the bounds themselves rejected
lengthAccepted_Strict(incl_len, snaplen) ==
  Gt(snaplen, incl_len) /\ Gt(U32(65535), incl_len)

\* the sanity check of readNextPacket on the record's length
lengthAccepted(incl_len, snaplen) ==
  ~(Gt(incl_len, snaplen) \/ Gt(incl_len, U32(65535)))

\* the data of the k-th record is in the file (a truncated file lacks the
\* data of its last record)
DataPresent(f, k) == ~(f.truncated /\ k = Len(f.records))

\* PcapReader::readNextPacket on the record at rd.pos + 1:
\* [ok, incl_len, seen]; seen is false when no record header was left
readNextPacket(rd, f) ==
  IF ~rd.is_open \/ rd.pos >= Len(f.records)
    THEN [ok |-> FALSE, incl_len |-> U32(0), seen |-> FALSE]
  ELSE LET incl_len == maybeSwap32(rd.needs_byte_swap,
                                   FromHost(f.records[rd.pos + 1].len_bytes))
       IN [ok |-> lengthAccepted(incl_len, rd.global_header.snaplen)
                    /\ DataPresent(f, rd.pos + 1),
           incl_len |-> incl_len,
           seen |-> TRUE]

\* PacketParser::parse on a frame of the given kind and length:
\* [ok, has_ip, has_tcp]
parse(kind, len) ==
  IF len < 14 THEN [ok |-> FALSE, has_ip |-> FALSE, has_tcp |-> FALSE]
  ELSE IF kind = "arp" THEN [ok |-> TRUE, has_ip |-> FALSE, has_tcp |-> FALSE]
  ELSE IF len < 34 THEN [ok |-> FALSE, has_ip |-> FALSE, has_tcp |-> FALSE]
  ELSE IF kind = "icmp" THEN [ok |-> TRUE, has_ip |-> TRUE, has_tcp |-> FALSE]
  ELSE IF len < 54 THEN [ok |-> FALSE, has_ip |-> TRUE, has_tcp |-> FALSE]
  ELSE [ok |-> TRUE, has_ip |-> TRUE, has_tcp |-> TRUE]

\* the records of a file written in the given byte order: frames of 60
\* bytes that are TCP over IPv4, ARP or ICMP, and TCP frames of 10, 65535
\* or 65536 bytes
RecordSeqs(order) ==
  UNION {[1..n -> {[len_bytes |-> FieldBytes(order, U32(r[1])), incl_len |-> r[1],
                    kind |-> r[2]] :
                     r \in {<<10, "tcp">>, <<60, "tcp">>, <<60, "arp">>, <<60, "icmp">>,
                            <<65535, "tcp">>, <<65536, "tcp">>}}]
           : n \in 0..MaxRecords}

\* the input files: one that does not open, one with a short global header,
\* one with a foreign magic, and pcap files of either byte order with a
\* snaplen of 64, 65535 or 262144
CaptureFiles ==
  {[exists |-> FALSE, order |-> "native", snaplen |-> 65535, header |-> <<>>,
    records |-> <<>>, truncated |-> FALSE],
   [exists |-> TRUE, order |-> "native", snaplen |-> 65535,
    header |-> SubSeq(FileHeader("native", 65535), 1, 20),
    records |-> <<>>, truncated |-> FALSE],
   [exists |-> TRUE, order |-> "other", snaplen |-> 65535,
    header |-> FileHeader("other", 65535),
    records |-> <<>>, truncated |-> FALSE]}
  \cup UNION {{[exists |-> TRUE, order |-> o, snaplen |-> sl,
                header |-> FileHeader(o, sl), records |-> rs,
                truncated |-> tr] :
                  sl \in {64, 65535, 262144}, rs \in RecordSeqs(o), tr \in BOOLEAN} :
                o \in {"native", "swapped"}}

InitPcap ==
  /\ CoreIdle /\ QueueIdle /\ sx = <<>>
  /\ \E f \in CaptureFiles, out_ok \in BOOLEAN :
       /\ f.truncated => f.records # <<>>
       /\ files = [in |-> f, out_ok |-> out_ok]
  /\ pcap = ClosedReader
  /\ pf = [pc |-> "processFile", threads_started |-> FALSE, result |-> "none",
           out_header |-> <<>>, dispatched |-> <<>>]

PcapFrame == UNCHANGED <<coreVars, queueVars, sx, call, files>>

\* processFile up to the reader thread: the output file is opened (false
\* is returned if it does not open), then start() starts the writer, the
\* workers and the balancers, then the reader thread is started
ProcessFileBegin ==
  /\ pf.pc = "processFile"
  /\ pf' = IF ~files.out_ok
             THEN [pf EXCEPT !.pc = "returned", !.result = "false"]
             ELSE [pf EXCEPT !.pc = "readerThread", !.threads_started = TRUE]
  /\ pcap' = pcap
  /\ PcapFrame

\* readerThreadFunc up to its loop: reader.open, and the header it read
\* is written to the output; the thread returns if open fails
ReaderOpen ==
  /\ pf.pc = "readerThread"
  /\ LET o == open(files.in)
     IN IF ~o[1]
          THEN pcap' = pcap /\ pf' = [pf EXCEPT !.pc = "readerDone"]
          ELSE /\ pcap' = o[2]
               /\ pf' = [pf EXCEPT !.pc = "readLoop",
                                   !.out_header = writeOutputHeader(o[2].global_header)]
  /\ PcapFrame

\* readerThreadFunc, one turn of its loop: readNextPacket ends the loop
\* when it returns false; a record that does not parse or is not TCP/UDP
\* over IP is skipped; any other is made a job and pushed to a balancer
ReaderRead ==
  /\ pf.pc = "readLoop"
  /\ LET r == readNextPacket(pcap, files.in)
         rec == files.in.records[pcap.pos + 1]
         last == [valid |-> r.seen, index |-> pcap.pos + 1,
                  incl_len |-> r.incl_len, accepted |-> r.ok]
     IN IF ~r.ok
          THEN /\ pcap' = [pcap EXCEPT !.is_open = FALSE,
                                       !.last = IF r.seen THEN last ELSE @]
               /\ pf' = [pf EXCEPT !.pc = "readerDone"]
          ELSE LET parsed == parse(rec.kind, ToNat(r.incl_len))
               IN /\ pcap' = [pcap EXCEPT !.pos = @ + 1, !.last = last]
                  /\ pf' = IF parsed.ok /\ parsed.has_ip /\ parsed.has_tcp
                             THEN [pf EXCEPT !.dispatched = Append(@, pcap.pos + 1)]
                             ELSE pf
  /\ PcapFrame

\* processFile after the reader thread: waitForCompletion joins it, stop()
\* stops the threads, and true is returned
ProcessFileEnd ==
  /\ pf.pc = "readerDone"
  /\ pf' = [pf EXCEPT !.pc = "returned", !.result = "true"]
  /\ pcap' = pcap
  /\ PcapFrame

NextPcap == ProcessFileBegin \/ ReaderOpen \/ ReaderRead \/ ProcessFileEnd

SpecPcap == InitPcap /\ [][NextPcap]_vars

-----------------------------------------------------------------------------
(* C16 *)

\* C16: the 24 bytes of global header written to the output are the 24
\* bytes of the input's global header, for an input of the native magic
\* a1b2c3d4 and for an input of the byte-swapped magic d4c3b2a1.
C16_HeaderCopiedByteForByte ==
  pf.out_header # <<>> => pf.out_header = files.in.header

-----------------------------------------------------------------------------
(* C17 *)

\* the k-th record is a whole IPv4 TCP frame within the length limits
ValidRecord(f, k) ==
  /\ f.records[k].kind = "tcp"
  /\ f.records[k].incl_len >= 54
  /\ f.records[k].incl_len <= f.snaplen /\ f.records[k].incl_len <= 65535
  /\ DataPresent(f, k)

\* the k-th record is too short to decode, not IPv4, not TCP/UDP, or longer
\* than snaplen or 65535
DefectiveRecord(f, k) ==
  \/ f.records[k].incl_len < 54
  \/ f.records[k].kind # "tcp"
  \/ f.records[k].incl_len > f.snaplen \/ f.records[k].incl_len > 65535

\* C17: a per-frame defect does not stop the pipeline -- when processFile
\* has returned for a well-formed capture file, every valid IPv4 TCP record
\* that follows a defective record was read, decoded and dispatched.
C17_DefectDoesNotStopPipeline ==
  (pf.pc = "returned" /\ files.out_ok /\ open(files.in)[1]) =>
    \A k \in 1..Len(files.in.records) :
      (ValidRecord(files.in, k) /\ \E j \in 1..(k - 1) : DefectiveRecord(files.in, j))
        => \E i \in 1..Len(pf.dispatched) : pf.dispatched[i] = k

-----------------------------------------------------------------------------
(* C18 *)

\* the input cannot be opened, its global header is short, or its magic is
\* not a pcap magic
StructuralFailure(f) ==
  \/ ~f.exists
  \/ Len(f.header) < 24
  \/ SubSeq(f.header, 1, 4) \notin {HostBytes(PCAP_MAGIC_NATIVE),
                                     HostBytes(PCAP_MAGIC_SWAPPED)}

\* C18: on a structural input failure processFile returns false, and no
\* balancer, worker or writer thread has been started.
C18_StructuralFailureAborts ==
  (pf.pc = "returned" /\ StructuralFailure(files.in)) =>
    (pf.result = "false" /\ ~pf.threads_started)

-----------------------------------------------------------------------------
(* C19 *)

\* C19: readNextPacket accepts a record whose data bytes are present if and
\* only if incl_len <= snaplen and incl_len <= 65535, incl_len and snaplen
\* being the numbers the file's writer stored.
C19_AcceptsIffWithinLimits ==
  (pcap.last.valid /\ DataPresent(files.in, pcap.last.index))
    => LET rec == files.in.records[pcap.last.index]
       IN pcap.last.accepted
            <=> (rec.incl_len <= files.in.snaplen /\ rec.incl_len <= 65535)

\* a record with incl_len == snaplen == 65535 was accepted, from a file of
\* the byte-swapped magic
C19_Witness ==
  /\ pcap.last.valid /\ pcap.last.accepted
  /\ files.in.order = "swapped"
  /\ files.in.snaplen = 65535
  /\ files.in.records[pcap.last.index].incl_len = 65535
  /\ ToNat(pcap.last.incl_len) = 65535

-----------------------------------------------------------------------------
(* SNIExtractor::extract on the bytes of a payload *)

CONTENT_TYPE_HANDSHAKE == 22
HANDSHAKE_CLIENT_HELLO == 1
EXTENSION_SNI == 0
SNI_TYPE_HOSTNAME == 0

\* payload[i]; index 0 is the first byte. Past the end of the buffer the
\* value is not the payload's: 0 stands for it.
byteAt(p, i) == IF i < Len(p) THEN p[i + 1] ELSE 0

readUint16BE(p, i) == byteAt(p, i) * 256 + byteAt(p, i + 1)

\* isTLSClientHello: [ok, hi], hi the number of leading bytes that were read
isTLSClientHello(p, length) ==
  IF length < 9 THEN [ok |-> FALSE, hi |-> 0]
  ELSE IF byteAt(p, 0) # CONTENT_TYPE_HANDSHAKE THEN [ok |-> FALSE, hi |-> 1]
  ELSE IF readUint16BE(p, 1) < 768 \/ readUint16BE(p, 1) > 772
    THEN [ok |-> FALSE, hi |-> 3]
  ELSE IF readUint16BE(p, 3) > length - 5 THEN [ok |-> FALSE, hi |-> 5]
  ELSE [ok |-> byteAt(p, 5) = HANDSHAKE_CLIENT_HELLO, hi |-> 6]

\* an end of the extensions that is taken from the length field alone
extensionsEnd_Unclamped(offset, extensions_length, length) ==
  offset + extensions_length

\* extensions_end: where the extensions end, at most the end of the slice
extensionsEnd(offset, extensions_length, length) ==
  IF offset + extensions_length > length THEN length
  ELSE offset + extensions_length

NoName(hi) == [sni |-> <<>>, name_end |-> 0, hi |-> hi]

RECURSIVE parseExtensions(_, _, _, _)
\* the while loop of extract from the extension at offset on:
\* [sni, name_end, hi]
parseExtensions(p, offset, extensions_end, hi) ==
  IF offset + 4 > extensions_end THEN NoName(hi)
  ELSE
    LET extension_type == readUint16BE(p, offset)
        extension_length == readUint16BE(p, offset + 2)
        o == offset + 4
        hi4 == IF o > hi THEN o ELSE hi
    IN IF o + extension_length > extensions_end THEN NoName(hi4)
       ELSE IF extension_type # EXTENSION_SNI
         THEN parseExtensions(p, o + extension_length, extensions_end, hi4)
       ELSE IF extension_length < 5 THEN NoName(hi4)
       ELSE IF readUint16BE(p, o) < 3 THEN NoName(IF o + 2 > hi4 THEN o + 2 ELSE hi4)
       ELSE
         LET sni_type == byteAt(p, o + 2)
             sni_length == readUint16BE(p, o + 3)
             hi5 == IF o + 5 > hi4 THEN o + 5 ELSE hi4
         IN IF sni_type # SNI_TYPE_HOSTNAME \/ sni_length > extension_length - 5
              THEN NoName(hi5)
              ELSE [sni |-> <<[i \in 1..sni_length |-> byteAt(p, o + 4 + i)]>>,
                    name_end |-> o + 5 + sni_length,
                    hi |-> IF o + 5 + sni_length > hi5 THEN o + 5 + sni_length ELSE hi5]

\* SNIExtractor::extract(payload, length): [sni, name_end, hi] -- the name
\* if one is found, the index after its last byte, and the number of
\* leading bytes of the buffer that were read
extract(p, length) ==
  IF ~isTLSClientHello(p, length).ok THEN NoName(isTLSClientHello(p, length).hi)
  ELSE IF 43 >= length THEN NoName(9)
  ELSE
    LET afterSession == 44 + byteAt(p, 43)
    IN IF afterSession + 2 > length THEN NoName(44)
       ELSE
         LET afterCiphers == afterSession + 2 + readUint16BE(p, afterSession)
         IN IF afterCiphers >= length THEN NoName(afterSession + 2)
            ELSE
              LET afterCompression == afterCiphers + 1 + byteAt(p, afterCiphers)
              IN IF afterCompression + 2 > length THEN NoName(afterCiphers + 1)
                 ELSE parseExtensions(
                        p, afterCompression + 2,
                        extensionsEnd(afterCompression + 2,
                                      readUint16BE(p, afterCompression), length),
                        afterCompression + 2)

\* the bytes of the name b.a
HostName == <<98, 46, 97>>

\* a server_name extension for HostName whose name length and extension
\* length fields are off by the given amounts
SniExtension(nameDelta, extDelta) ==
  <<0, 0, 0, Len(HostName) + 5 + extDelta, 0, Len(HostName) + 3,
    SNI_TYPE_HOSTNAME, 0, Len(HostName) + nameDelta>> \o HostName

\* a supported_groups extension with one byte of data
OtherExtension == <<0, 10, 0, 1, 9>>

\* a TLS 1.2 ClientHello with an empty session id, one cipher suite, one
\* compression method and the given extensions, in a record whose length
\* field is record_length
ClientHello(exts, record_length) ==
  <<CONTENT_TYPE_HANDSHAKE, 3, 1, record_length \div 256, record_length % 256,
    HANDSHAKE_CLIENT_HELLO, 0, 0, 43 + Len(exts), 3, 3>>
  \o [i \in 1..32 |-> 7]
  \o <<0, 0, 2, 19, 1, 1, 0, 0, Len(exts)>> \o exts

\* the calls: a ClientHello with the server_name extension alone, first or
\* last, its length fields right or one too large, cut at any position; the
\* record length field is that of the whole record or of what is left of it
ExtractCalls ==
  UNION {
    {[payload |-> ClientHello(exts, IF whole \/ length < 5 THEN 47 + Len(exts) ELSE length - 5),
      length |-> length] :
        length \in 0..(52 + Len(exts)), whole \in BOOLEAN} :
    exts \in UNION {{SniExtension(nd, ed),
                     SniExtension(nd, ed) \o OtherExtension,
                     OtherExtension \o SniExtension(nd, ed)} :
                      nd \in 0..1, ed \in 0..1}}

InitSni ==
  /\ CoreIdle /\ QueueIdle /\ PcapIdle
  /\ \E c \in ExtractCalls :
       sx = [payload |-> c.payload, length |-> c.length, returned |-> FALSE,
             sni |-> <<>>, name_end |-> 0, hi |-> 0]

\* the call is made and returns
SniExtract ==
  /\ ~sx.returned
  /\ LET r == extract(sx.payload, sx.length)
     IN sx' = [sx EXCEPT !.returned = TRUE, !.sni = r.sni,
                         !.name_end = r.name_end, !.hi = r.hi]
  /\ UNCHANGED <<coreVars, queueVars, pcapVars, call>>

SpecSni == InitSni /\ [][SniExtract]_vars

-----------------------------------------------------------------------------
(* C20 *)

\* C20: for every payload and every length, a ClientHello cut at any
\* position included, extract reads only bytes of index smaller than
\* length, and returns no match or a name that lies inside the slice.
C20_ReadsInsideSlice ==
  sx.returned =>
    /\ sx.hi <= sx.length
    /\ sx.sni # <<>> =>
         /\ sx.name_end <= sx.length
         /\ sx.sni[1] = SubSeq(sx.payload, sx.name_end - Len(sx.sni[1]) + 1, sx.name_end)

\* the server_name extension is the last one and the slice ends with the
\* last byte of the name: the name is returned
C20_Witness ==
  /\ sx.returned
  /\ sx.sni = <<HostName>>
  /\ sx.name_end = sx.length
  /\ sx.hi = sx.length
  /\ sx.length > 60

-----------------------------------------------------------------------------
(* DPIEngine, LoadBalancer and the threads of processFile *)

\* config.num_load_balancers and config.fps_per_lb as main sets them
NumLBs == 2
FPsPerLB == 2
\* most frames of a capture file
MaxFrames == 2

LBIds == 0 .. (NumLBs - 1)
FPIds == 0 .. (NumLBs * FPsPerLB - 1)

\* the flows of the capture files
EngTuples == {t \in FPTuples : t.dst_port # 80}

\* FiveTupleHash is a function of the tuple; std::hash is the build's, so
\* the value is any. NumLBs and FPsPerLB are equal, so the residue modulo
\* NumLBs is all that hash % NumLBs and hash % FPsPerLB read.
HashValues == 0 .. (NumLBs - 1)

\* what a frame of the file parses to: an ICMP frame, a TLS ClientHello of
\* the TCP flow, a DNS query of the UDP flow
FrameKinds ==
  {[has_ip |-> TRUE, has_tcp |-> FALSE, has_udp |-> FALSE,
    tuple |-> [src_ip |-> 1, dst_ip |-> 9, src_port |-> 0, dst_port |-> 0, protocol |-> 1],
    tcp_flags |-> 0, payload |-> NoPayload, data |-> "icmp"]}
  \cup {[has_ip |-> TRUE, has_tcp |-> t.protocol = 6, has_udp |-> t.protocol = 17,
         tuple |-> t,
         tcp_flags |-> IF t.protocol = 6 THEN ACK ELSE 0,
         payload |-> IF t.protocol = 6
                       THEN [len |-> 60, sni |-> <<NameYT>>, host |-> <<>>, dns |-> <<>>]
                       ELSE [len |-> 30, sni |-> <<>>, host |-> <<>>, dns |-> <<NameBA>>],
         data |-> IF t.protocol = 6 THEN "hello" ELSE "query"] : t \in EngTuples}

\* the capture files: up to MaxFrames frames, the k-th stamped k
Inputs ==
  UNION {{[k \in 1..n |-> [frame |-> f[k], ts |-> k]] : f \in [1..n -> FrameKinds]}
           : n \in 0..MaxFrames}

\* the reader's filter: IP with TCP or UDP
Passes(raw) == raw.frame.has_ip /\ (raw.frame.has_tcp \/ raw.frame.has_udp)

\* frames of the first k that the reader skips
FilteredUpTo(inp, k) == Cardinality({i \in 1..k : ~Passes(inp[i])})

createPacketJob(raw, packet_id) ==
  [packet_id |-> packet_id,
   ts |-> raw.ts,
   tuple |-> raw.frame.tuple,
   tcp_flags |-> raw.frame.tcp_flags,
   payload |-> raw.frame.payload,
   data |-> raw.frame.data]

getLBForPacket(tuple) == hashOf[tuple] % NumLBs

\* selectFP with a round-robin term added to the hash
selectFP_RoundRobin(lb, tuple) ==
  (hashOf[tuple] + lb.packets_dispatched) % lb.num_fps

\* selectFP: index of the worker queue within the balancer's own
selectFP(lb, tuple) == hashOf[tuple] % lb.num_fps

\* handleOutput: <<stats, output queue>>
handleOutput(st, q, job, action) ==
  IF action = "DROP"
    THEN <<[st EXCEPT !.dropped_packets = @ + 1], q>>
    ELSE <<[st EXCEPT !.forwarded_packets = @ + 1], push(q, job)>>

\* the record writeOutputPacket writes (packet_id is not in the file: it is
\* kept to tell the records apart)
writeOutputPacket(file, job) ==
  Append(file, [ts |-> job.ts, data |-> job.data, packet_id |-> job.packet_id])

At(place) == [at |-> place, k |-> 0]
NoJob == <<>>

\* a thread that was in its loop when running_ was cleared has either
\* passed the test of running_ (and does one more popWithTimeout) or not
AfterStop(pc) == IF pc = "top" THEN {"top", "pop"} ELSE {pc}

\* the engine before processFile, its queues built with one of the given
\* capacities
InitEngineCap(capacities) ==
  /\ rm \in {NoRules, blockApp(NoRules, "YOUTUBE")}
  /\ rq = NoQuery
  /\ conns = <<>> /\ clock = 0 /\ fpFlow = <<>> /\ fpLast = NoFrame
  /\ input \in Inputs
  /\ hashOf \in [EngTuples -> HashValues]
  /\ mainPc = At("processFile")
  /\ running = FALSE
  /\ reader = [pos |-> 0, packet_id |-> 0]
  /\ stats = [total_packets |-> 0, forwarded_packets |-> 0, dropped_packets |-> 0]
  /\ lbs = [i \in LBIds |->
              [running |-> FALSE, pc |-> "idle", job |-> NoJob,
               fp_start_id |-> i * FPsPerLB, num_fps |-> FPsPerLB,
               input_queue |-> EmptyQueue, packets_dispatched |-> 0]]
  /\ fps = [j \in FPIds |->
              [running |-> FALSE, pc |-> "idle", job |-> NoJob, action |-> "FORWARD",
               input_queue |-> EmptyQueue, conns |-> <<>>]]
  /\ outq = EmptyQueue
  /\ writerPc = "idle"
  /\ outFile = <<>>
  /\ flowLog = [t \in EngTuples |-> <<>>]
  /\ tsq = EmptyQueue /\ max_size \in capacities /\ producers = <<>> /\ pops = 0
  /\ consumer = <<>>
  /\ PcapIdle /\ sx = <<>> /\ twin = <<>> /\ call = <<>>

\* the engine as its constructors build it: every queue of 10000 items
InitEngine == InitEngineCap({QueueCapacity})

Alive == mainPc.at # "crashed"

\* processFile up to the start of the reader thread: start() sets
\* running_ and starts the writer, the workers and the balancers
ProcessFileStart ==
  /\ mainPc.at = "processFile"
  /\ running' = TRUE
  /\ writerPc' = "top"
  /\ fps' = [j \in FPIds |-> [fps[j] EXCEPT !.running = TRUE, !.pc = "top"]]
  /\ lbs' = [i \in LBIds |-> [lbs[i] EXCEPT !.running = TRUE, !.pc = "top"]]
  /\ mainPc' = At("waitForCompletion")
  /\ UNCHANGED <<input, hashOf, reader, stats, outq, outFile, flowLog>>
  /\ UNCHANGED <<rm, rq, conns, clock, fpFlow, fpLast, twin>> /\ RestUnchanged

\* readerThreadFunc, one frame: skipped, or made a job and pushed to the
\* balancer its hash selects
ReaderStep ==
  /\ Alive
  /\ mainPc.at # "processFile"
  /\ reader.pos < Len(input)
  /\ LET raw == input[reader.pos + 1]
         job == createPacketJob(raw, reader.packet_id)
         lb == getLBForPacket(job.tuple)
     IN IF ~Passes(raw)
          THEN /\ reader' = [reader EXCEPT !.pos = @ + 1]
               /\ UNCHANGED <<stats, lbs>>
          ELSE /\ CanPush(lbs[lb].input_queue)
               /\ reader' = [pos |-> reader.pos + 1, packet_id |-> reader.packet_id + 1]
               /\ stats' = [stats EXCEPT !.total_packets = @ + 1]
               /\ lbs' = [lbs EXCEPT ![lb].input_queue = push(@, job)]
  /\ UNCHANGED <<input, hashOf, mainPc, running, fps, outq, writerPc, outFile, flowLog>>
  /\ UNCHANGED <<rm, rq, conns, clock, fpFlow, fpLast, twin>> /\ RestUnchanged

\* waitForCompletion: the reader is joined; the two sleeps that follow
\* wait for no thread
WaitForCompletion ==
  /\ mainPc.at = "waitForCompletion"
  /\ reader.pos = Len(input)
  /\ mainPc' = At("stop")
  /\ UNCHANGED <<input, hashOf, running, reader, stats, lbs, fps, outq, writerPc,
                 outFile, flowLog>>
  /\ UNCHANGED <<rm, rq, conns, clock, fpFlow, fpLast, twin>> /\ RestUnchanged

\* stop: running_ = false
Stop ==
  /\ mainPc.at = "stop"
  /\ running' = FALSE
  /\ writerPc' \in AfterStop(writerPc)
  /\ mainPc' = [at |-> "stopLB", k |-> 0]
  /\ UNCHANGED <<input, hashOf, reader, stats, lbs, fps, outq, outFile, flowLog>>
  /\ UNCHANGED <<rm, rq, conns, clock, fpFlow, fpLast, twin>> /\ RestUnchanged

\* LoadBalancer::stop up to the join
StopLB ==
  /\ mainPc.at = "stopLB"
  /\ \E pc \in AfterStop(lbs[mainPc.k].pc) :
       lbs' = [lbs EXCEPT ![mainPc.k].running = FALSE,
                          ![mainPc.k].input_queue = shutdown(@),
                          ![mainPc.k].pc = pc]
  /\ mainPc' = [mainPc EXCEPT !.at = "joinLB"]
  /\ UNCHANGED <<input, hashOf, running, reader, stats, fps, outq, writerPc,
                 outFile, flowLog>>
  /\ UNCHANGED <<rm, rq, conns, clock, fpFlow, fpLast, twin>> /\ RestUnchanged

\* a stop that goes on without joining the balancer's thread
JoinLB_NoWait ==
  /\ mainPc.at = "joinLB"
  /\ mainPc' = IF mainPc.k + 1 < NumLBs
                 THEN [at |-> "stopLB", k |-> mainPc.k + 1]
                 ELSE [at |-> "stopFP", k |-> 0]
  /\ UNCHANGED <<input, hashOf, running, reader, stats, lbs, fps, outq, writerPc,
                 outFile, flowLog>>
  /\ UNCHANGED <<rm, rq, conns, clock, fpFlow, fpLast, twin>> /\ RestUnchanged

\* LoadBalancer::stop: thread_.join(), then the next balancer or the workers
JoinLB ==
  /\ mainPc.at = "joinLB"
  /\ lbs[mainPc.k].pc = "exit"
  /\ mainPc' = IF mainPc.k + 1 < NumLBs
                 THEN [at |-> "stopLB", k |-> mainPc.k + 1]
                 ELSE [at |-> "stopFP", k |-> 0]
  /\ UNCHANGED <<input, hashOf, running, reader, stats, lbs, fps, outq, writerPc,
                 outFile, flowLog>>
  /\ UNCHANGED <<rm, rq, conns, clock, fpFlow, fpLast, twin>> /\ RestUnchanged

\* FastPathProcessor::stop up to the join
StopFP ==
  /\ mainPc.at = "stopFP"
  /\ \E pc \in AfterStop(fps[mainPc.k].pc) :
       fps' = [fps EXCEPT ![mainPc.k].running = FALSE,
                          ![mainPc.k].input_queue = shutdown(@),
                          ![mainPc.k].pc = pc]
  /\ mainPc' = [mainPc EXCEPT !.at = "joinFP"]
  /\ UNCHANGED <<input, hashOf, running, reader, stats, lbs, outq, writerPc,
                 outFile, flowLog>>
  /\ UNCHANGED <<rm, rq, conns, clock, fpFlow, fpLast, twin>> /\ RestUnchanged

JoinFP ==
  /\ mainPc.at = "joinFP"
  /\ fps[mainPc.k].pc = "exit"
  /\ mainPc' = IF mainPc.k + 1 < NumLBs * FPsPerLB
                 THEN [at |-> "stopFP", k |-> mainPc.k + 1]
                 ELSE At("stopOutput")
  /\ UNCHANGED <<input, hashOf, running, reader, stats, lbs, fps, outq, writerPc,
                 outFile, flowLog>>
  /\ UNCHANGED <<rm, rq, conns, clock, fpFlow, fpLast, twin>> /\ RestUnchanged

\* stop: output_queue_.shutdown()
StopOutput ==
  /\ mainPc.at = "stopOutput"
  /\ outq' = shutdown(outq)
  /\ mainPc' = At("joinOutput")
  /\ UNCHANGED <<input, hashOf, running, reader, stats, lbs, fps, writerPc,
                 outFile, flowLog>>
  /\ UNCHANGED <<rm, rq, conns, clock, fpFlow, fpLast, twin>> /\ RestUnchanged

\* the writer is joined, the file closed and processFile returns
JoinOutput ==
  /\ mainPc.at = "joinOutput"
  /\ writerPc = "exit"
  /\ mainPc' = At("done")
  /\ UNCHANGED <<input, hashOf, running, reader, stats, lbs, fps, outq, writerPc,
                 outFile, flowLog>>
  /\ UNCHANGED <<rm, rq, conns, clock, fpFlow, fpLast, twin>> /\ RestUnchanged

\* the loop of a thread is at its popWithTimeout
AtPop(th) == (th.pc = "top" /\ th.running) \/ th.pc = "pop"

\* LoadBalancer::run: a job is taken from the input queue
LBPop(i) ==
  /\ Alive
  /\ AtPop(lbs[i])
  /\ LET got == popWithTimeout(lbs[i].input_queue)
     IN /\ got[1] # <<>>
        /\ lbs' = [lbs EXCEPT ![i].input_queue = got[2], ![i].job = got[1][1],
                              ![i].pc = "push"]
  /\ UNCHANGED <<input, hashOf, mainPc, running, reader, stats, fps, outq, writerPc,
                 outFile, flowLog>>
  /\ UNCHANGED <<rm, rq, conns, clock, fpFlow, fpLast, twin>> /\ RestUnchanged

\* LoadBalancer::run: popWithTimeout returned nothing
LBTimeout(i) ==
  /\ Alive
  /\ AtPop(lbs[i])
  /\ popWithTimeout(lbs[i].input_queue)[1] = <<>>
  /\ lbs' = [lbs EXCEPT ![i].pc = "top"]
  /\ UNCHANGED <<input, hashOf, mainPc, running, reader, stats, fps, outq, writerPc,
                 outFile, flowLog>>
  /\ UNCHANGED <<rm, rq, conns, clock, fpFlow, fpLast, twin>> /\ RestUnchanged

\* the balancer and the worker queue it feeds after LoadBalancer::run
\* pushed its job and counted it
Dispatched(i) ==
  LET lb == lbs[i]
      fp == lb.fp_start_id + selectFP(lb, lb.job.tuple)
  IN <<[lb EXCEPT !.job = NoJob, !.pc = "top", !.packets_dispatched = @ + 1],
       fp, push(fps[fp].input_queue, lb.job)>>

\* LoadBalancer::run: the job goes to the worker selectFP names; the
\* write to per_fp_counts_[fp_index], a vector of size 0, is outside the
\* vector: here it does no visible harm
LBDispatch(i) ==
  /\ Alive
  /\ lbs[i].pc = "push"
  /\ CanPush(fps[Dispatched(i)[2]].input_queue)
  /\ lbs' = [lbs EXCEPT ![i] = Dispatched(i)[1]]
  /\ fps' = [fps EXCEPT ![Dispatched(i)[2]].input_queue = Dispatched(i)[3]]
  /\ UNCHANGED <<input, hashOf, mainPc, running, reader, stats, outq, writerPc,
                 outFile, flowLog>>
  /\ UNCHANGED <<rm, rq, conns, clock, fpFlow, fpLast, twin>> /\ RestUnchanged

\* ... and here the write ends the process
LBDispatchFault(i) ==
  /\ Alive
  /\ lbs[i].pc = "push"
  /\ CanPush(fps[Dispatched(i)[2]].input_queue)
  /\ lbs' = [lbs EXCEPT ![i] = Dispatched(i)[1]]
  /\ fps' = [fps EXCEPT ![Dispatched(i)[2]].input_queue = Dispatched(i)[3]]
  /\ mainPc' = At("crashed")
  /\ UNCHANGED <<input, hashOf, running, reader, stats, outq, writerPc,
                 outFile, flowLog>>
  /\ UNCHANGED <<rm, rq, conns, clock, fpFlow, fpLast, twin>> /\ RestUnchanged

\* LoadBalancer::run: running_ is found false
LBExit(i) ==
  /\ Alive
  /\ lbs[i].pc = "top" /\ ~lbs[i].running
  /\ lbs' = [lbs EXCEPT ![i].pc = "exit"]
  /\ UNCHANGED <<input, hashOf, mainPc, running, reader, stats, fps, outq, writerPc,
                 outFile, flowLog>>
  /\ UNCHANGED <<rm, rq, conns, clock, fpFlow, fpLast, twin>> /\ RestUnchanged

\* FastPathProcessor::run: a job is taken and processPacket gives its verdict
FPPop(j) ==
  /\ Alive
  /\ AtPop(fps[j])
  /\ LET got == popWithTimeout(fps[j].input_queue)
     IN /\ got[1] # <<>>
        /\ LET job == got[1][1]
               victims == IF fps[j].conns = <<>> THEN {job.tuple} ELSE Oldest(fps[j].conns)
           IN \E victim \in victims :
                LET res == processPacket(fps[j].conns, rm, job, clock, victim)
                IN /\ fps' = [fps EXCEPT ![j].input_queue = got[2], ![j].job = job,
                                         ![j].conns = res[1], ![j].action = res[2],
                                         ![j].pc = "out"]
                   /\ flowLog' = [flowLog EXCEPT ![job.tuple] =
                                    Append(@, [packet_id |-> job.packet_id, fp |-> j])]
  /\ UNCHANGED <<input, hashOf, mainPc, running, reader, stats, lbs, outq, writerPc,
                 outFile>>
  /\ UNCHANGED <<rm, rq, conns, clock, fpFlow, fpLast, twin>> /\ RestUnchanged

\* FastPathProcessor::run: nothing popped, the flow table is swept
FPTimeout(j) ==
  /\ Alive
  /\ AtPop(fps[j])
  /\ popWithTimeout(fps[j].input_queue)[1] = <<>>
  /\ fps' = [fps EXCEPT ![j].conns = cleanupStale(@, clock, StaleTicks),
                        ![j].pc = "top"]
  /\ UNCHANGED <<input, hashOf, mainPc, running, reader, stats, lbs, outq, writerPc,
                 outFile, flowLog>>
  /\ UNCHANGED <<rm, rq, conns, clock, fpFlow, fpLast, twin>> /\ RestUnchanged

\* FastPathProcessor::run: output_callback_, which is handleOutput
FPOutput(j) ==
  /\ Alive
  /\ fps[j].pc = "out"
  /\ fps[j].action = "FORWARD" => CanPush(outq)
  /\ LET res == handleOutput(stats, outq, fps[j].job, fps[j].action)
     IN stats' = res[1] /\ outq' = res[2]
  /\ fps' = [fps EXCEPT ![j].job = NoJob, ![j].pc = "top"]
  /\ UNCHANGED <<input, hashOf, mainPc, running, reader, lbs, writerPc,
                 outFile, flowLog>>
  /\ UNCHANGED <<rm, rq, conns, clock, fpFlow, fpLast, twin>> /\ RestUnchanged

FPExit(j) ==
  /\ Alive
  /\ fps[j].pc = "top" /\ ~fps[j].running
  /\ fps' = [fps EXCEPT ![j].pc = "exit"]
  /\ UNCHANGED <<input, hashOf, mainPc, running, reader, stats, lbs, outq, writerPc,
                 outFile, flowLog>>
  /\ UNCHANGED <<rm, rq, conns, clock, fpFlow, fpLast, twin>> /\ RestUnchanged

\* outputThreadFunc: a job is taken and written
WriterPop ==
  /\ Alive
  /\ \/ writerPc = "top" /\ (running \/ outq.items # <<>>)
     \/ writerPc = "pop"
  /\ LET got == popWithTimeout(outq)
     IN /\ got[1] # <<>>
        /\ outq' = got[2]
        /\ outFile' = writeOutputPacket(outFile, got[1][1])
  /\ writerPc' = "top"
  /\ UNCHANGED <<input, hashOf, mainPc, running, reader, stats, lbs, fps, flowLog>>
  /\ UNCHANGED <<rm, rq, conns, clock, fpFlow, fpLast, twin>> /\ RestUnchanged

WriterTimeout ==
  /\ Alive
  /\ writerPc = "pop"
  /\ popWithTimeout(outq)[1] = <<>>
  /\ writerPc' = "top"
  /\ UNCHANGED <<input, hashOf, mainPc, running, reader, stats, lbs, fps, outq,
                 outFile, flowLog>>
  /\ UNCHANGED <<rm, rq, conns, clock, fpFlow, fpLast, twin>> /\ RestUnchanged

\* outputThreadFunc: running_ is false and the queue is empty
WriterExit ==
  /\ Alive
  /\ writerPc = "top" /\ ~running /\ outq.items = <<>>
  /\ writerPc' = "exit"
  /\ UNCHANGED <<input, hashOf, mainPc, running, reader, stats, lbs, fps, outq,
                 outFile, flowLog>>
  /\ UNCHANGED <<rm, rq, conns, clock, fpFlow, fpLast, twin>> /\ RestUnchanged

NextEngine ==
  \/ ProcessFileStart \/ ReaderStep \/ WaitForCompletion
  \/ Stop \/ StopLB \/ JoinLB \/ StopFP \/ JoinFP \/ StopOutput \/ JoinOutput
  \/ \E i \in LBIds : LBPop(i) \/ LBTimeout(i) \/ LBDispatch(i) \/ LBDispatchFault(i)
                        \/ LBExit(i)
  \/ \E j \in FPIds : FPPop(j) \/ FPTimeout(j) \/ FPOutput(j) \/ FPExit(j)
  \/ WriterPop \/ WriterTimeout \/ WriterExit

SpecEngine == InitEngine /\ [][NextEngine]_vars

-----------------------------------------------------------------------------
(* C14 *)

\* C14: shutdown order -- the input queue of a worker is shut down only
\* after every balancer thread has ended, the output queue only after every
\* worker thread has ended; so a balancer about to push never finds its
\* worker queue shut down, and a worker about to hand over a frame never
\* finds the output queue shut down.
C14_ShutdownOrder ==
  /\ \A j \in FPIds :
       fps[j].input_queue.shutdown => \A i \in LBIds : lbs[i].pc = "exit"
  /\ outq.shutdown => \A j \in FPIds : fps[j].pc = "exit"
  /\ \A i \in LBIds :
       lbs[i].pc = "push" => ~fps[Dispatched(i)[2]].input_queue.shutdown
  /\ \A j \in FPIds : fps[j].pc = "out" => ~outq.shutdown

\* stop has shut every queue down after frames went through a balancer and
\* a worker to the output queue
C14_Witness ==
  /\ outq.shutdown
  /\ \A j \in FPIds : fps[j].input_queue.shutdown
  /\ \A i \in LBIds : lbs[i].input_queue.shutdown
  /\ \E i \in LBIds : lbs[i].packets_dispatched > 0
  /\ stats.forwarded_packets > 0

-----------------------------------------------------------------------------
(* C3 *)

PassedFrames(inp) == {k \in 1..Len(inp) : Passes(inp[k])}

\* C3: with an empty rule set, when processFile returns the output holds
\* exactly one record for every input frame that decoded as IPv4 TCP or
\* UDP, under every thread interleaving.
C3_OutputCountEqualsInput ==
  (mainPc.at = "done" /\ rm = NoRules) =>
    Len(outFile) = Cardinality(PassedFrames(input))

-----------------------------------------------------------------------------
(* C4 *)

\* C4: when processFile returns, the number of frames read equals
\* forwarded_packets + dropped_packets + the frames filtered out at the
\* reader, and total_packets = forwarded_packets + dropped_packets.
C4_CountersReconcile ==
  mainPc.at = "done" =>
    /\ reader.pos = stats.forwarded_packets + stats.dropped_packets
                      + FilteredUpTo(input, reader.pos)
    /\ stats.total_packets = stats.forwarded_packets + stats.dropped_packets

-----------------------------------------------------------------------------
(* C5 *)

\* packet_id the reader gives the k-th frame of the file
IdOfFrame(inp, k) == Cardinality({i \in 1..(k - 1) : Passes(inp[i])})

\* C5: every record the writer wrote carries the bytes and the timestamp of
\* a work item the reader created from an input frame, and no frame id is
\* written more than once.
C5_NoFabricationNoDuplication ==
  /\ \A r \in 1..Len(outFile) :
       \E k \in 1..reader.pos :
         /\ Passes(input[k])
         /\ outFile[r].ts = input[k].ts
         /\ outFile[r].data = input[k].frame.data
         /\ outFile[r].packet_id = IdOfFrame(input, k)
  /\ \A r1, r2 \in 1..Len(outFile) :
       outFile[r1].packet_id = outFile[r2].packet_id => r1 = r2

\* two records written, of two frames with the same bytes
C5_Witness ==
  /\ Len(outFile) = 2
  /\ outFile[1].data = outFile[2].data
  /\ outFile[1].ts # outFile[2].ts

-----------------------------------------------------------------------------
(* C6 *)

RECURSIVE RefForwarded(_, _, _, _, _, _)
\* the frame ids forwarded when the frames of the file are given to
\* processPacket one after the other, each flow in a table of its own worker
RefForwarded(inp, r, k, tbl, id, acc) ==
  IF k > Len(inp) THEN acc
  ELSE IF ~Passes(inp[k]) THEN RefForwarded(inp, r, k + 1, tbl, id, acc)
  ELSE LET job == createPacketJob(inp[k], id)
           res == processPacket(tbl, r, job, 0, job.tuple)
       IN RefForwarded(inp, r, k + 1, res[1], id + 1,
                       IF res[2] = "FORWARD" THEN acc \cup {id} ELSE acc)

WrittenIds == {outFile[r].packet_id : r \in 1..Len(outFile)}

\* C6: for a fixed input, rule set, L and W_lb the set of frame ids written
\* to the output is the same in every run: at the return of processFile it
\* is the set the verdicts of the frames in file order give.
C6_SameOutputEveryRun ==
  mainPc.at = "done" => WrittenIds = RefForwarded(input, rm, 1, <<>>, 0, {})

-----------------------------------------------------------------------------
(* C7 *)

\* C7: two frames of the same five-tuple are processed by the worker in
\* the order the reader enqueued them (increasing frame id), under every
\* interleaving of the reader, the balancers and the workers.
C7_PerFlowOrder ==
  \A t \in EngTuples :
    \A a, b \in 1..Len(flowLog[t]) :
      a < b => flowLog[t][a].packet_id < flowLog[t][b].packet_id

\* two frames of one tuple processed while a third thread of the pipeline
\* was still at work on one of them
C7_Witness ==
  \E t \in EngTuples :
    /\ Len(flowLog[t]) = 2
    /\ \E j \in FPIds : fps[j].pc = "out" /\ fps[j].job.tuple = t
    /\ outq.items # <<>>

-----------------------------------------------------------------------------
(* C8 *)

\* C8: at every instant a five-tuple has at most one flow record across
\* all worker flow tables, and every frame of a tuple goes through the same
\* balancer and the same worker for the whole run.
C8_OneRecordPerTuple ==
  \A t \in EngTuples :
    /\ Cardinality({j \in FPIds : t \in DOMAIN fps[j].conns}) <= 1
    /\ \A a, b \in 1..Len(flowLog[t]) : flowLog[t][a].fp = flowLog[t][b].fp
    /\ \A i \in LBIds :
         /\ \A n \in 1..Len(lbs[i].input_queue.items) :
              lbs[i].input_queue.items[n].tuple = t => i = getLBForPacket(t)
         /\ (lbs[i].job # NoJob /\ lbs[i].job.tuple = t) => i = getLBForPacket(t)
    /\ \A j \in FPIds :
         (\E n \in 1..Len(fps[j].input_queue.items) :
            fps[j].input_queue.items[n].tuple = t)
           => \A e \in 1..Len(flowLog[t]) : flowLog[t][e].fp = j

\* processFile has returned, two frames of one tuple were processed, both
\* by the worker whose table holds the record of the tuple
C8_Witness ==
  \E t \in EngTuples, j \in FPIds :
    /\ mainPc.at = "done"
    /\ Len(flowLog[t]) = 2
    /\ flowLog[t][1].fp = j /\ flowLog[t][2].fp = j
    /\ t \in DOMAIN fps[j].conns

-----------------------------------------------------------------------------
(* C21 *)

\* C21: consumers drain before exiting -- a balancer thread or a worker
\* thread that has left its loop has an input queue that is shut down and
\* empty, so no work item pushed before the shutdown is left unconsumed.
C21_ConsumersDrainBeforeExit ==
  /\ \A i \in DOMAIN lbs :
       lbs[i].pc = "exit"
         => (lbs[i].input_queue.shutdown /\ lbs[i].input_queue.items = <<>>)
  /\ \A j \in DOMAIN fps :
       fps[j].pc = "exit"
         => (fps[j].input_queue.shutdown /\ fps[j].input_queue.items = <<>>)

-----------------------------------------------------------------------------
(* C22 *)

\* C22: the writer thread has ended only if the output queue is shut down
\* and empty, and never while a worker thread is still running and can
\* still push a forwarded frame.
C22_WriterOutlivesWorkers ==
  writerPc = "exit"
    => /\ outq.shutdown /\ outq.items = <<>>
       /\ \A j \in DOMAIN fps : fps[j].pc = "exit"

-----------------------------------------------------------------------------
(* C23 *)

\* The scheduler runs every thread that can take a step: the main thread,
\* the reader, each balancer, each worker and the writer.  A thread blocked
\* in push or in a join has no step to take.
EngineFairness ==
  /\ WF_vars(ProcessFileStart \/ WaitForCompletion \/ Stop \/ StopLB \/ JoinLB
               \/ StopFP \/ JoinFP \/ StopOutput \/ JoinOutput)
  /\ WF_vars(ReaderStep)
  /\ \A i \in LBIds : WF_vars(LBPop(i) \/ LBTimeout(i) \/ LBDispatch(i)
                                \/ LBDispatchFault(i) \/ LBExit(i))
  /\ \A j \in FPIds : WF_vars(FPPop(j) \/ FPTimeout(j) \/ FPOutput(j) \/ FPExit(j))
  /\ WF_vars(WriterPop \/ WriterTimeout \/ WriterExit)

\* the smallest capacity a ThreadSafeQueue can be given; two frames against
\* a queue of one item stand for 10001 frames against a queue of 10000
SmallestCapacity == 1

\* the engine with queues of the smallest capacity, under a fair scheduler
SpecEngineLive ==
  InitEngineCap({SmallestCapacity}) /\ [][NextEngine]_vars /\ EngineFairness

\* C23: processFile terminates for every input and every interleaving: the
\* main thread gets through stop (every dispatcher, every worker and the
\* writer joined) and returns, unless the process has ended before; no thread
\* stays blocked in a queue push or pop for ever.
C23_ProcessFileTerminates ==
  <>(mainPc.at \in {"done", "crashed"})

-----------------------------------------------------------------------------
(* C24 *)

\* A thread that a notification has woken gets the mutex and runs: the
\* scheduler is fair to the producers and the consumer that were notified.
QueueFairness ==
  /\ \A p \in ProducerIds : WF_vars(PushWake(p) /\ producers[p].notified)
  /\ WF_vars(PopWake /\ consumer.notified)

SpecQueueLive == InitQueue /\ [][NextQueue]_vars /\ QueueFairness

\* C24: after shutdown() every thread blocked in push on the full queue or
\* in pop / popWithTimeout on the empty queue eventually returns (and no
\* call blocks afterwards).
C24_ShutdownWakesWaiters ==
  [](tsq.shutdown =>
       <>[](/\ \A p \in DOMAIN producers : producers[p].pc = "idle"
            /\ consumer.pc = "idle"))

\* shutdown has ended a push that waited on the full queue (its item
\* discarded) and a pop that waited on the empty queue (no item returned)
C24_Witness ==
  /\ tsq.shutdown
  /\ \E p \in DOMAIN producers :
       /\ producers[p].pc = "idle" /\ producers[p].waited
       /\ producers[p].result = "discarded"
  /\ consumer.pc = "idle" /\ consumer.waited /\ consumer.shutdownSeen
  /\ consumer.result = "nullopt"

-----------------------------------------------------------------------------
(* C25 *)

\* C25: shutdown is permanent and closes the producer side only.  Once the
\* queue is shut down it stays so; no push or tryPush adds an item (the call
\* ends with its item discarded or refused and the contents unchanged); the
\* contents change only by a pop that returns the front item, and a pop that
\* returns from the empty queue returns no item.
C25_ShutdownClosesProducerSide ==
  [][tsq.shutdown =>
       /\ tsq'.shutdown
       /\ \/ tsq'.items = tsq.items
          \/ /\ tsq.items # <<>> /\ tsq'.items = Tail(tsq.items)
             /\ consumer'.pc = "idle" /\ consumer'.result = "item"
             /\ consumer'.got = <<Head(tsq.items)>>
       /\ \A p \in DOMAIN producers :
            producers'[p].calls > producers[p].calls \/ producers'[p].pc # producers[p].pc
              => /\ producers'[p].pc = "idle"
                 /\ producers'[p].result \in {"discarded", "refused"}
                 /\ tsq'.items = tsq.items
       /\ (consumer' # consumer /\ consumer'.pc = "idle")
            => IF tsq.items = <<>>
                 THEN consumer'.result = "nullopt" /\ consumer'.got = <<>>
                 ELSE consumer'.result = "item" /\ consumer'.got = <<Head(tsq.items)>>]_vars

\* after shutdown a push was discarded, the MaxSize items queued before came
\* out one by one, and the next pop returned no item
C25_Witness ==
  /\ tsq.shutdown /\ tsq.items = <<>>
  /\ \E p \in DOMAIN producers : producers[p].result = "discarded"
  /\ consumer.drained >= MaxSize
  /\ consumer.result = "nullopt" /\ consumer.shutdownSeen

-----------------------------------------------------------------------------
(* shouldBlock step by step, beside a thread that changes the rules *)

\* SpecRulesShared: rq is the shouldBlock call in progress -- the check it
\* is about to make, its arguments, its result, and (seen) the verdict of
\* every rule-set state that has existed since the call began
SInit ==
  /\ rm = NoRules
  /\ rq = [pc |-> "idle", src_ip |-> 1, dst_port |-> 443, app |-> "YOUTUBE",
           domain |-> <<>>, reason |-> <<>>, seen |-> {}]
  /\ WorkerIdle

\* a worker calls shouldBlock
SShouldBlockCall ==
  /\ rq.pc \in {"idle", "returned"}
  /\ \E domain \in {<<>>} \cup RuleLiterals :
       rq' = [pc |-> "ip", src_ip |-> 1, dst_port |-> 443, app |-> "YOUTUBE",
              domain |-> domain, reason |-> <<>>,
              seen |-> {shouldBlock(rm, 1, 443, "YOUTUBE", domain)}]
  /\ rm' = rm
  /\ WorkerUnchanged

\* shouldBlock: the next of its four checks, each under the shared lock of
\* its own rule kind, released when the check returns
SShouldBlockStep ==
  /\ rq.pc \in {"ip", "port", "app", "domain"}
  /\ LET hit == CASE rq.pc = "ip" -> isIPBlocked(rm, rq.src_ip)
                  [] rq.pc = "port" -> isPortBlocked(rm, rq.dst_port)
                  [] rq.pc = "app" -> isAppBlocked(rm, rq.app)
                  [] rq.pc = "domain" ->
                       rq.domain # <<>> /\ isDomainBlocked(rm, rq.domain)
         reason == CASE rq.pc = "ip" -> <<"IP">>
                     [] rq.pc = "port" -> <<"PORT">>
                     [] rq.pc = "app" -> <<"APP">>
                     [] rq.pc = "domain" -> <<"DOMAIN">>
         next == CASE rq.pc = "ip" -> "port"
                   [] rq.pc = "port" -> "app"
                   [] rq.pc = "app" -> "domain"
                   [] rq.pc = "domain" -> "returned"
     IN rq' = IF hit THEN [rq EXCEPT !.pc = "returned", !.reason = reason]
                     ELSE [rq EXCEPT !.pc = next]
  /\ rm' = rm
  /\ WorkerUnchanged

\* another thread calls block* or unblock*: the unique lock of one rule kind
SRuleUpdate ==
  /\ \E r \in {blockIP(rm, 1), unblockIP(rm, 1), blockPort(rm, 443),
               unblockPort(rm, 443), blockApp(rm, "YOUTUBE"),
               unblockApp(rm, "YOUTUBE")}
              \cup {blockDomain(rm, d) : d \in RuleLiterals}
              \cup {unblockDomain(rm, d) : d \in RuleLiterals} :
       /\ r # rm
       /\ rm' = r
       /\ rq' = IF rq.pc \in {"idle", "returned"} THEN rq
                ELSE [rq EXCEPT !.seen = @ \cup
                        {shouldBlock(r, rq.src_ip, rq.dst_port, rq.app, rq.domain)}]
  /\ WorkerUnchanged

SNext == SShouldBlockCall \/ SShouldBlockStep \/ SRuleUpdate

SpecRulesShared == SInit /\ [][SNext]_vars

-----------------------------------------------------------------------------
(* C26 *)

\* C26: a shouldBlock call is atomic with respect to rule updates: the
\* verdict it returns is the verdict of the four rule kinds on one rule-set
\* state that existed between the start of the call and its return.
C26_VerdictFromOneSnapshot ==
  rq.pc = "returned" => rq.reason \in rq.seen

-----------------------------------------------------------------------------
(* C27 *)

\* C27: no downgrade -- once a sniffer has set the application tag and the
\* server name of a flow record (the name is then non-empty), no later frame
\* of the flow changes the tag or the name while the record exists, whatever
\* its TCP flags and payload.
C27_NoDowngrade ==
  [][(/\ fpFlow \in DOMAIN conns /\ conns[fpFlow].sni # <<>>
      /\ fpFlow \in DOMAIN conns')
       => /\ conns'[fpFlow].app_type = conns[fpFlow].app_type
          /\ conns'[fpFlow].sni = conns[fpFlow].sni]_vars

-----------------------------------------------------------------------------
(* C28 *)

\* the record carries the tag of the port fallback and no server name
TaggedByPort(conn) == conn.app_type \in {"HTTP", "HTTPS"} /\ conn.sni = <<>>

\* C28: the port fallback is tentative -- a record tagged HTTPS or HTTP by
\* the fallback is not classified, and a later frame of the flow in which a
\* sniffer finds a name sets the tag and the name found (the flow not being
\* blocked).
C28_FallbackIsTentative ==
  /\ [](\A t \in DOMAIN conns :
          TaggedByPort(conns[t]) => conns[t].state # "CLASSIFIED")
  /\ [][(/\ fpFlow \in DOMAIN conns /\ TaggedByPort(conns[fpFlow])
         /\ conns[fpFlow].state # "BLOCKED"
         /\ fpLast' # fpLast /\ fpLast'.sniffed # <<>>)
          => /\ conns'[fpFlow].sni = fpLast'.sniffed
             /\ conns'[fpFlow].app_type = AppOf(fpLast'.sniffed[1])]_vars

-----------------------------------------------------------------------------
(* One worker and a second worker fed the same frames (SpecFPFlags,
   SpecFPFlows) *)

\* flag bytes of the frames the two workers are fed
TwinFlags == {0, SYN, ACK, RST}

\* payloads of the frames the two workers are fed
TwinPayloads ==
  {NoPayload,
   [len |-> 10, sni |-> <<>>, host |-> <<>>, dns |-> <<>>],
   [len |-> 60, sni |-> <<NameYT>>, host |-> <<>>, dns |-> <<>>]}

InitTwin ==
  /\ rm \in {NoRules, blockApp(NoRules, "YOUTUBE")}
  /\ rq = NoQuery
  /\ conns = <<>>
  /\ clock = 0
  /\ fpFlow \in FPTuples
  /\ fpLast = NoFrame
  /\ PipelineIdle /\ RestIdle
  /\ twin = [conns |-> <<>>, action |-> "FORWARD"]

\* processPacket on a frame of flow t with flags f and payload p; the second
\* worker, whose table holds only the record of t, gets the frame with the
\* flags g
TwinProcess(t, f, g, p, victim) ==
  LET job == [tuple |-> t, tcp_flags |-> f, payload |-> p]
      res == processPacket(conns, rm, job, clock, victim)
      alone == [u \in (DOMAIN twin.conns) \cap {t} |-> twin.conns[u]]
      ref == processPacket(alone, rm, [job EXCEPT !.tcp_flags = g], clock, t)
  IN /\ conns' = res[1]
     /\ twin' = [conns |-> [u \in (DOMAIN twin.conns) \cup {t} |->
                              IF u = t THEN ref[1][t] ELSE twin.conns[u]],
                 action |-> ref[2]]
     /\ fpFlow' = t
     /\ fpLast' = [valid |-> TRUE,
                   blockedAtArrival |-> WasBlockedAtArrival(conns, t),
                   droppedEarlier |->
                      fpLast.valid /\ (fpLast.droppedEarlier \/ fpLast.action = "DROP"),
                   action |-> res[2],
                   app_type |-> res[1][t].app_type,
                   sni |-> res[1][t].sni,
                   sniffed |-> Sniffed(job),
                   sniHit |-> tryExtractSNI(job, NewConnection(0))[1]]
     /\ UNCHANGED <<rm, rq, clock>>
     /\ PipelineUnchanged

\* the two workers get the frames of one TCP flow, equal but for the flags
FlagsProcess ==
  /\ fpFlow.protocol = 6
  /\ \E f \in TwinFlags, g \in TwinFlags, p \in TwinPayloads :
       TwinProcess(fpFlow, f, g, p, fpFlow)

SpecFPFlags == InitTwin /\ [][FlagsProcess]_vars

\* the worker gets the frames of several flows interleaved; the second
\* worker handles every flow as if it were alone
FlowsProcess ==
  \E t \in FPTuples, p \in TwinPayloads :
    \E f \in IF t.protocol = 6 THEN {ACK} ELSE {0},
       victim \in IF conns = <<>> THEN {t} ELSE Oldest(conns) :
      TwinProcess(t, f, f, p, victim)

\* steady_clock moves on between two frames
TwinTick ==
  /\ clock < MaxClock
  /\ clock' = clock + 1
  /\ UNCHANGED <<rm, rq, conns, fpFlow, fpLast, twin>>
  /\ PipelineUnchanged

SpecFPFlows == InitTwin /\ [][FlowsProcess \/ TwinTick]_vars

-----------------------------------------------------------------------------
(* C29 *)

\* C29: verdicts do not depend on TCP flags -- two frame sequences of one
\* flow that differ in the flag bytes only get the same verdicts, and leave
\* the same application tag and server name in the flow record.
C29_FlagsDoNotMatter ==
  fpLast.valid =>
    /\ fpLast.action = twin.action
    /\ fpLast.app_type = twin.conns[fpFlow].app_type
    /\ fpLast.sni = twin.conns[fpFlow].sni

-----------------------------------------------------------------------------
(* C30 *)

\* C30: isolation between flows -- with frames of several five-tuples
\* interleaved, every frame gets the verdict it gets when its flow is
\* processed alone under the same rules; in particular no frame of a flow
\* that no rule blocks is dropped because another flow is blocked.
C30_FlowsAreIsolated ==
  fpLast.valid => fpLast.action = twin.action

-----------------------------------------------------------------------------
(* C31 *)

\* C31: flow table capacity -- the table never holds more than
\* max_connections records; when a frame of a new tuple arrives at a full
\* table exactly one record goes, it is one with the least last_seen, and
\* every other record is left as it was; at a table that is not full no
\* record goes.
C31_TableCapacity ==
  /\ [](Cardinality(DOMAIN conns) <= MaxConnections)
  /\ [][(conns' # conns /\ fpFlow' \notin DOMAIN conns)
          => IF Cardinality(DOMAIN conns) >= MaxConnections
               THEN \E v \in DOMAIN conns :
                      /\ \A u \in DOMAIN conns :
                           conns[v].last_seen <= conns[u].last_seen
                      /\ DOMAIN conns' = ((DOMAIN conns) \ {v}) \cup {fpFlow'}
                      /\ \A u \in (DOMAIN conns) \ {v} : conns'[u] = conns[u]
               ELSE /\ DOMAIN conns' = (DOMAIN conns) \cup {fpFlow'}
                    /\ \A u \in DOMAIN conns : conns'[u] = conns[u]]_vars

\* the full table has taken a new flow: more flows have been seen than it
\* holds, and its records were not all seen at the same time
C31_Witness ==
  /\ Cardinality(DOMAIN conns) = MaxConnections
  /\ Cardinality(DOMAIN twin.conns) > MaxConnections
  /\ \E u, v \in DOMAIN conns : conns[u].last_seen < conns[v].last_seen

-----------------------------------------------------------------------------
(* Functions called on their own, one call in a behaviour: SpecCalls *)

InitCalls == CoreIdle /\ QueueIdle /\ PcapIdle /\ sx = <<>>

CallFrame == UNCHANGED <<coreVars, queueVars, pcapVars, sx>>

\* every Connection as far as updateTCPState reads and writes it
TcpRecords ==
  {[NewConnection(0) EXCEPT !.state = st, !.syn_seen = a, !.syn_ack_seen = b,
                            !.fin_seen = c] :
     st \in {"NEW", "ESTABLISHED", "CLASSIFIED", "BLOCKED", "CLOSED"},
     a \in BOOLEAN, b \in BOOLEAN, c \in BOOLEAN}

\* updateTCPState on any record with any flag byte
CallUpdateTCPState ==
  /\ call = <<>>
  /\ \E conn \in TcpRecords, tcp_flags \in 0 .. 255 :
       call' = [fn |-> "updateTCPState", conn |-> conn, tcp_flags |-> tcp_flags,
                result |-> updateTCPState(conn, tcp_flags)]
  /\ CallFrame

\* names for sniToAppType: with a pattern of one application, of two, and
\* in mixed case
MapperNames ==
  {<<"y", "t", "3", ".", "g", "g", "p", "h", "t", ".", "c", "o", "m">>,
   <<"y", "o", "u", "t", "u", "b", "e", ".", "g", "o", "o", "g", "l", "e", "a", "p", "i", "s", ".", "c", "o", "m">>,
   <<"y", "o", "u", "t", "u", "b", "e", ".", "c", "o", "m">>,
   <<"y", "t", "i", "m", "g", ".", "c", "o", "m">>,
   <<"i", "n", "s", "t", "a", "g", "r", "a", "m", ".", "f", "b", "c", "d", "n", ".", "n", "e", "t">>,
   <<"I", "n", "s", "t", "a", "g", "r", "a", "m", ".", "c", "o", "m">>,
   <<"w", "h", "a", "t", "s", "a", "p", "p", ".", "f", "b", ".", "c", "o", "m">>,
   <<"w", "a", ".", "m", "e">>,
   <<"g", "o", "o", "g", "l", "e", ".", "c", "o", "m">>,
   <<"f", "b", "c", "d", "n", ".", "n", "e", "t">>}

\* sniToAppType on one of the names
CallSniToAppType ==
  /\ call = <<>>
  /\ \E sni \in MapperNames :
       call' = [fn |-> "sniToAppType", sni |-> sni, result |-> sniToAppType(sni)]
  /\ CallFrame

\* x | y on non-negative values
RECURSIVE BitOr(_, _)
BitOr(x, y) ==
  IF x = 0 THEN y
  ELSE IF y = 0 THEN x
  ELSE (IF x % 2 = 1 \/ y % 2 = 1 THEN 1 ELSE 0) + 2 * BitOr(x \div 2, y \div 2)

DigitChars == <<"0", "1", "2", "3", "4", "5", "6", "7", "8", "9">>
\* c - '0'
DigitValue(c) == (CHOOSE i \in 1 .. 10 : DigitChars[i] = c) - 1

\* operator<< of an ostream on a value of 0 .. 255: decimal, no leading zero
Decimal(n) ==
  IF n < 10 THEN <<DigitChars[n + 1]>>
  ELSE IF n < 100 THEN <<DigitChars[(n \div 10) + 1], DigitChars[(n % 10) + 1]>>
  ELSE <<DigitChars[(n \div 100) + 1], DigitChars[((n \div 10) % 10) + 1],
        DigitChars[(n % 10) + 1]>>

\* ipToString with the most significant byte first, as inet_ntoa would print
\* a host-order value
ipToString_HighByteFirst(ip) ==
  Decimal(ip[1]) \o <<".">> \o Decimal(ip[2]) \o <<".">>
  \o Decimal(ip[3]) \o <<".">> \o Decimal(ip[4])

\* PacketParser::ipToString (and RuleManager::ipToString): the bytes
\* (ip >> 0) & 0xFF, (ip >> 8) & 0xFF, (ip >> 16) & 0xFF, (ip >> 24) & 0xFF in
\* decimal, dots between; ip is the tuple of its bytes, the most significant
\* first
ipToString(ip) ==
  Decimal(ip[4]) \o <<".">> \o Decimal(ip[3]) \o <<".">>
  \o Decimal(ip[2]) \o <<".">> \o Decimal(ip[1])

\* result |= (octet << shift), for a shift of 0, 8, 16 or 24
OrShifted(result, octet, shift) ==
  [i \in 1 .. 4 |->
     LET p == 4 - i
         q == shift \div 8
     IN IF p < q THEN result[i]
        ELSE BitOr(result[i], (octet \div (256 ^ (p - q))) % 256)]

RECURSIVE parseIPFrom(_, _, _, _, _)
\* the loop of parseIP from character k on
parseIPFrom(ip, k, result, octet, shift) ==
  IF k > Len(ip) THEN OrShifted(result, octet, shift)
  ELSE IF ip[k] = "."
    THEN parseIPFrom(ip, k + 1, OrShifted(result, octet, shift), 0, shift + 8)
  ELSE IF \E i \in 1 .. 10 : DigitChars[i] = ip[k]
    THEN parseIPFrom(ip, k + 1, result, octet * 10 + DigitValue(ip[k]), shift)
  ELSE parseIPFrom(ip, k + 1, result, octet, shift)

\* RuleManager::parseIP, and the lambda of the same text in createPacketJob
parseIP(ip) == parseIPFrom(ip, 1, <<0, 0, 0, 0>>, 0, 0)

\* parseIPv4 and createPacketJob on the four source-address bytes of a
\* frame: memcpy into a uint32_t, ipToString, parseIP
tupleSrcIp(wire) == parseIP(ipToString(FromHost(wire)))

\* octets on both sides of every change in the number of digits and of the
\* top bit
Octets == {0, 1, 9, 10, 99, 100, 127, 128, 255}

\* the dotted quad a user writes for the address with these wire bytes
DottedQuad(wire) ==
  Decimal(wire[1]) \o <<".">> \o Decimal(wire[2]) \o <<".">>
  \o Decimal(wire[3]) \o <<".">> \o Decimal(wire[4])

\* a frame with the source address a.b.c.d is parsed, and the rule string
\* "a.b.c.d" is
CallParseIP ==
  /\ call = <<>>
  /\ \E wire \in [1 .. 4 -> Octets] :
       call' = [fn |-> "parseIP", wire |-> wire,
                src_ip |-> tupleSrcIp(wire),
                rule_ip |-> parseIP(DottedQuad(wire))]
  /\ CallFrame

\* DNSExtractor::isDNSQuery: 12 bytes or more, QR bit clear, QDCOUNT not 0
isDNSQuery(payload) ==
  /\ Len(payload) >= 12
  /\ payload[3] < 128
  /\ payload[5] * 256 + payload[6] # 0

RECURSIVE extractQueryFrom(_, _, _)
\* the while loop of extractQuery from offset on: the name gathered when it
\* ends
extractQueryFrom(payload, offset, domain) ==
  IF offset >= Len(payload) THEN domain
  ELSE LET label_length == payload[offset + 1]
       IN IF label_length = 0 THEN domain
          ELSE IF label_length > 63 THEN domain
          ELSE IF offset + 1 + label_length > Len(payload) THEN domain
          ELSE extractQueryFrom(payload, offset + 1 + label_length,
                 (IF domain # <<>> THEN domain \o <<46>> ELSE domain)
                   \o SubSeq(payload, offset + 2, offset + 1 + label_length))

\* DNSExtractor::extractQuery: <<>> for std::nullopt, else <<name>>; a name
\* is its bytes (46 is the dot)
extractQuery(payload) ==
  IF ~isDNSQuery(payload) THEN <<>>
  ELSE LET domain == extractQueryFrom(payload, 12, <<>>)
       IN IF domain = <<>> THEN <<>> ELSE <<domain>>

\* longest question section of the payloads
MaxQuestionLen == 4
\* the bytes of a question: the end of the name, label lengths 1 and 2, the
\* letter a, the smallest byte with a high bit set, a compression pointer
QuestionBytes == {0, 1, 2, 97, 64, 192}
\* headers of a query, of a response, of a query without a question
DnsHeaders ==
  {<<0, 1, 1, 0, 0, 1, 0, 0, 0, 0, 0, 0>>,
   <<0, 1, 129, 128, 0, 1, 0, 0, 0, 0, 0, 0>>,
   <<0, 1, 1, 0, 0, 0, 0, 0, 0, 0, 0, 0>>}

\* extractQuery on a payload
CallExtractQuery ==
  /\ call = <<>>
  /\ \E h \in DnsHeaders, n \in 0 .. MaxQuestionLen :
       \E q \in [1 .. n -> QuestionBytes] :
         call' = [fn |-> "extractQuery", payload |-> h \o q,
                  result |-> extractQuery(h \o q)]
  /\ CallFrame

NextCalls == CallUpdateTCPState \/ CallSniToAppType \/ CallParseIP \/ CallExtractQuery

SpecCalls == InitCalls /\ [][NextCalls]_vars

-----------------------------------------------------------------------------
(* C32 *)

\* C32: updateTCPState is this transition function: SYN without ACK sets
\* syn_seen, SYN with ACK sets syn_ack_seen, FIN sets fin_seen, and nothing
\* else changes the three flags, which are never reset; an ACK with syn_seen
\* and syn_ack_seen set moves NEW, and no other state, to ESTABLISHED; RST
\* moves the state to CLOSED, and so does an ACK with fin_seen set; the state
\* changes in no other way and no other field changes.
C32_TcpTransitions ==
  (call # <<>> /\ call.fn = "updateTCPState") =>
    LET c == call.conn
        r == call.result
        syn == FlagSet(call.tcp_flags, SYN)
        ack == FlagSet(call.tcp_flags, ACK)
        fin == FlagSet(call.tcp_flags, FIN)
        rst == FlagSet(call.tcp_flags, RST)
        closes == rst \/ (ack /\ r.fin_seen)
        opens == ack /\ r.syn_seen /\ r.syn_ack_seen /\ c.state = "NEW"
    IN /\ r.syn_seen = (c.syn_seen \/ (syn /\ ~ack))
       /\ r.syn_ack_seen = (c.syn_ack_seen \/ (syn /\ ack))
       /\ r.fin_seen = (c.fin_seen \/ fin)
       /\ r.state = IF closes THEN "CLOSED"
                    ELSE IF opens THEN "ESTABLISHED" ELSE c.state
       /\ r.app_type = c.app_type /\ r.sni = c.sni /\ r.last_seen = c.last_seen

\* a CLASSIFIED record with both handshake flags set has met an ACK and
\* kept its state
C32_Witness ==
  /\ call # <<>> /\ call.fn = "updateTCPState"
  /\ call.conn.state = "CLASSIFIED"
  /\ call.conn.syn_seen /\ call.conn.syn_ack_seen /\ ~call.conn.fin_seen
  /\ call.tcp_flags = ACK
  /\ call.result.state = "CLASSIFIED"

-----------------------------------------------------------------------------
(* C33 *)

\* C33: the TLS sniffer is run only on frames to destination port 443 with
\* more than 5 payload bytes: a frame on which it finds a name goes to port
\* 443, and no flow to another port has its name from a ClientHello.
C33_SniOnlyOnPort443 ==
  (fpLast.valid /\ fpLast.sniHit) => fpFlow.dst_port = 443

-----------------------------------------------------------------------------
(* The writes to the output file, one write() at a time: SpecOutput *)

\* what the two threads write: the 24 bytes of the global header, the 16
\* bytes of a record header, the frame bytes of a record (packet_id is not
\* in the file: it tells whose bytes they are)
GlobalHeaderWrite == [kind |-> "global", packet_id |-> 0]
\* writeOutputPacket: its two writes, in the order it makes them
PacketWrites(job) ==
  <<[kind |-> "pkt_header", packet_id |-> job.packet_id],
    [kind |-> "data", packet_id |-> job.packet_id]>>

\* output_mutex_ is held by the writer from its first write to its second
OutputMutexFree == writerPc.at # "body"

\* the reader thread is started, the output thread runs; the balancers are
\* left out: the reader's job reaches the queue of some worker
InitOutput ==
  /\ rm = NoRules /\ rq = NoQuery
  /\ conns = <<>> /\ clock = 0 /\ fpFlow = <<>> /\ fpLast = NoFrame
  /\ input \in Inputs
  /\ hashOf = <<>> /\ mainPc = [at |-> "idle", k |-> 0] /\ running = TRUE
  /\ reader = [pos |-> 0, packet_id |-> 0, at |-> "open"]
  /\ stats = [total_packets |-> 0, forwarded_packets |-> 0, dropped_packets |-> 0]
  /\ lbs = <<>>
  /\ fps = [j \in FPIds |-> <<>>]
  /\ outq = EmptyQueue
  /\ writerPc = [at |-> "top", job |-> NoJob]
  /\ outFile = <<>>
  /\ flowLog = <<>>
  /\ twin = <<>> /\ RestIdle

OutputFrame ==
  /\ UNCHANGED <<rm, rq, conns, clock, fpFlow, fpLast, twin>>
  /\ UNCHANGED <<input, hashOf, mainPc, running, lbs, flowLog>>
  /\ RestUnchanged

\* readerThreadFunc: the input file does not open
OutOpenFails ==
  /\ reader.at = "open"
  /\ reader' = [reader EXCEPT !.at = "done"]
  /\ UNCHANGED <<stats, fps, outq, writerPc, outFile>>
  /\ OutputFrame

\* readerThreadFunc: writeOutputHeader, under output_mutex_
OutGlobalHeader ==
  /\ reader.at = "open"
  /\ OutputMutexFree
  /\ outFile' = Append(outFile, GlobalHeaderWrite)
  /\ reader' = [reader EXCEPT !.at = "loop"]
  /\ UNCHANGED <<stats, fps, outq, writerPc>>
  /\ OutputFrame

\* a reader that hands a frame on before it has written the global header
OutRead_BeforeHeader ==
  /\ reader.at \in {"open", "loop"}
  /\ reader.pos < Len(input)
  /\ LET raw == input[reader.pos + 1]
         job == createPacketJob(raw, reader.packet_id)
     IN IF ~Passes(raw)
          THEN /\ reader' = [reader EXCEPT !.pos = @ + 1]
               /\ UNCHANGED <<stats, fps>>
          ELSE /\ reader' = [reader EXCEPT !.pos = @ + 1, !.packet_id = @ + 1]
               /\ stats' = [stats EXCEPT !.total_packets = @ + 1]
               /\ \E j \in FPIds : fps' = [fps EXCEPT ![j] = Append(@, job)]
  /\ UNCHANGED <<outq, writerPc, outFile>>
  /\ OutputFrame

\* readerThreadFunc: one turn of its loop
OutRead ==
  /\ reader.at = "loop"
  /\ reader.pos < Len(input)
  /\ LET raw == input[reader.pos + 1]
         job == createPacketJob(raw, reader.packet_id)
     IN IF ~Passes(raw)
          THEN /\ reader' = [reader EXCEPT !.pos = @ + 1]
               /\ UNCHANGED <<stats, fps>>
          ELSE /\ reader' = [reader EXCEPT !.pos = @ + 1, !.packet_id = @ + 1]
               /\ stats' = [stats EXCEPT !.total_packets = @ + 1]
               /\ \E j \in FPIds : fps' = [fps EXCEPT ![j] = Append(@, job)]
  /\ UNCHANGED <<outq, writerPc, outFile>>
  /\ OutputFrame

\* worker j: the verdict on its next job, then handleOutput
OutForward(j) ==
  /\ fps[j] # <<>>
  /\ \E action \in {"FORWARD", "DROP"} :
       LET res == handleOutput(stats, outq, Head(fps[j]), action)
       IN stats' = res[1] /\ outq' = res[2]
  /\ fps' = [fps EXCEPT ![j] = Tail(@)]
  /\ UNCHANGED <<reader, writerPc, outFile>>
  /\ OutputFrame

\* outputThreadFunc: a job is taken; writeOutputPacket locks and makes its
\* first write
OutPacketHeader ==
  /\ writerPc.at = "top"
  /\ LET got == popWithTimeout(outq)
     IN /\ got[1] # <<>>
        /\ outq' = got[2]
        /\ outFile' = Append(outFile, PacketWrites(got[1][1])[1])
        /\ writerPc' = [at |-> "body", job |-> got[1][1]]
  /\ UNCHANGED <<reader, stats, fps>>
  /\ OutputFrame

\* writeOutputPacket: its second write, and the lock is released
OutPacketBody ==
  /\ writerPc.at = "body"
  /\ outFile' = Append(outFile, PacketWrites(writerPc.job)[2])
  /\ writerPc' = [at |-> "top", job |-> NoJob]
  /\ UNCHANGED <<reader, stats, fps, outq>>
  /\ OutputFrame

NextOutput ==
  \/ OutOpenFails \/ OutGlobalHeader \/ OutRead
  \/ \E j \in FPIds : OutForward(j)
  \/ OutPacketHeader \/ OutPacketBody

SpecOutput == InitOutput /\ [][NextOutput]_vars

-----------------------------------------------------------------------------
(* C34 *)

\* C34: the writer serialises records -- in the output stream the global
\* header comes before every record, and the header of each record is
\* followed at once by the frame bytes of the same record, with no write of
\* another record or of the global header in between, however the reader,
\* the workers and the writer interleave.
C34_RecordsSerialised ==
  /\ \A k \in 1 .. Len(outFile) :
       (outFile[k].kind = "global") = (k = 1)
  /\ \A k \in 1 .. Len(outFile) :
       outFile[k].kind = "pkt_header" =>
         IF k = Len(outFile)
           THEN writerPc.at = "body" /\ writerPc.job.packet_id = outFile[k].packet_id
           ELSE outFile[k + 1] = [kind |-> "data", packet_id |-> outFile[k].packet_id]
  /\ \A k \in 1 .. Len(outFile) :
       outFile[k].kind = "data" =>
         k > 1 /\ outFile[k - 1] = [kind |-> "pkt_header", packet_id |-> outFile[k].packet_id]

\* the global header and two whole records are in the file, the record of
\* the later frame first
C34_Witness ==
  /\ Len(outFile) = 5
  /\ outFile[1].kind = "global"
  /\ outFile[2].packet_id = 1 /\ outFile[4].packet_id = 0

-----------------------------------------------------------------------------
(* C35 *)

\* C35: exact domain rules are case-insensitive on the name --
\* isDomainBlocked compares the lower-cased name with the exact set, so a
\* name whose lower-cased form is an exact rule is blocked.
C35_ExactRuleIgnoresCase ==
  (rq.kind = "isDomainBlocked" /\ ToLower(rq.domain) \in rm.blocked_domains)
    => rq.blocked

-----------------------------------------------------------------------------
(* C40 *)

\* C40: remove undoes insert for domain rules -- when p (literal or
\* wildcard) is the only domain rule, inserted once or more, then after one
\* unblockDomain(p) isDomainBlocked is false for every name.
C40_RemoveUndoesInsert ==
  [][\A p \in WildRules \cup LiteralRules :
       (DomainRulesOf(rm) = {p} /\ rm' = unblockDomain(rm, p))
         => \A d \in Names : ~isDomainBlocked(rm', d)]_vars

-----------------------------------------------------------------------------
(* C36 *)

\* the patterns sniToAppType holds for an application
PatternsOf(app) ==
  UNION {AppPatterns[k][2] : k \in {i \in 1 .. Len(AppPatterns) : AppPatterns[i][1] = app}}

HasPatternOf(sni, app) == \E pat \in PatternsOf(app) : Contains(ToLower(sni), pat)

\* C36: the YouTube, Instagram and WhatsApp patterns are tried before the
\* Google and Facebook patterns -- a name that contains a YouTube pattern
\* maps to YouTube even if it contains a Google pattern too, and a name that
\* contains an Instagram or a WhatsApp pattern maps to Instagram or WhatsApp
\* even if it contains a Facebook pattern too.
C36_SpecificBeforeGeneric ==
  (call # <<>> /\ call.fn = "sniToAppType") =>
    /\ HasPatternOf(call.sni, "YOUTUBE") => call.result = "YOUTUBE"
    /\ (HasPatternOf(call.sni, "INSTAGRAM") /\ ~HasPatternOf(call.sni, "YOUTUBE"))
         => call.result = "INSTAGRAM"
    /\ (HasPatternOf(call.sni, "WHATSAPP") /\ ~HasPatternOf(call.sni, "YOUTUBE")
          /\ ~HasPatternOf(call.sni, "INSTAGRAM"))
         => call.result = "WHATSAPP"

-----------------------------------------------------------------------------
(* C37 *)

\* C37: IP values use one convention end to end -- for a frame whose source
\* address has the wire bytes a, b, c, d the source IP of the five-tuple
\* equals parseIP("a.b.c.d"), and both are a + b*2^8 + c*2^16 + d*2^24 (as
\* bytes, the most significant first: d, c, b, a); so the rule for a dotted
\* quad matches exactly the frames with that source address.
C37_OneIpConvention ==
  (call # <<>> /\ call.fn = "parseIP") =>
    /\ call.src_ip = call.rule_ip
    /\ call.rule_ip = <<call.wire[4], call.wire[3], call.wire[2], call.wire[1]>>

\* the address 10.0.128.255 has been parsed both ways
C37_Witness ==
  /\ call # <<>> /\ call.fn = "parseIP"
  /\ call.wire = <<10, 0, 128, 255>>
  /\ call.src_ip = <<255, 128, 0, 10>>

-----------------------------------------------------------------------------
(* C38 *)

RECURSIVE MeetsPointer(_, _)
\* the labels from offset on lead to a length byte of 64 or more
MeetsPointer(payload, offset) ==
  /\ offset < Len(payload)
  /\ payload[offset + 1] # 0
  /\ \/ payload[offset + 1] >= 64
     \/ /\ offset + 1 + payload[offset + 1] <= Len(payload)
        /\ MeetsPointer(payload, offset + 1 + payload[offset + 1])

\* C38: extractQuery rejects compression pointers -- for a query whose
\* question name has a length byte of 64 or more the result is no match,
\* also when valid labels come before that byte.
C38_PointersRejected ==
  (call # <<>> /\ call.fn = "extractQuery"
     /\ isDNSQuery(call.payload) /\ MeetsPointer(call.payload, 12))
    => call.result = <<>>

-----------------------------------------------------------------------------
(* C39 *)

\* C39: the same hash picks the balancer (hash mod NumLBs) and the worker
\* within the balancer's slice (hash mod FPsPerLB); the two numbers being
\* equal, the worker at position k of balancer i gets a job only if k = i:
\* with two balancers of two workers each, FP1 and FP2 never get a job.
C39_OffDiagonalWorkersIdle ==
  \A i \in LBIds, k \in 0 .. (FPsPerLB - 1) :
    k # i =>
      /\ fps[i * FPsPerLB + k].input_queue.items = <<>>
      /\ fps[i * FPsPerLB + k].job = NoJob

\* FP0 and FP3 each hold a job at the same time
C39_Witness ==
  /\ fps # <<>>
  /\ fps[0].job # NoJob /\ fps[3].job # NoJob
  /\ fps[1].job = NoJob /\ fps[2].job = NoJob

=============================================================================
